---- MODULE Spec2Model ----
(***************************************************************************)
(* Gradix answer-sheet evaluator: segmentation of OCR text, the evaluation *)
(* reconciler with its remote/heuristic scoring, the evaluation store and  *)
(* the sheet lifecycle, as implemented by the Flask handlers.              *)
(*                                                                         *)
(* Scores are integers in thousandths (0.78 is 780).  A text is a sequence *)
(* of one-character strings.  The variables hold the committed contents of *)
(* the database tables; one action is one whole request.                   *)
(***************************************************************************)
EXTENDS Integers, Sequences, FiniteSets, Bags, TLC

(***************************************************************************)
(* Bounds of the model.                                                    *)
(***************************************************************************)
MaxSheets == 1
MaxExams == 1
NumStudents == 1
MaxTime == 2
MaxAdjust == 1

(***************************************************************************)
(* Characters and the helpers of Python's str and re that the code uses.   *)
(***************************************************************************)
Digits == {"0", "1", "2", "3", "4", "5", "6", "7", "8", "9"}
Whitespace == {" ", "\n"}
Separators == {")", "."} \cup Whitespace

DigitValue(c) ==
    CASE c = "0" -> 0 [] c = "1" -> 1 [] c = "2" -> 2 [] c = "3" -> 3
      [] c = "4" -> 4 [] c = "5" -> 5 [] c = "6" -> 6 [] c = "7" -> 7
      [] c = "8" -> 8 [] c = "9" -> 9

RECURSIVE ParseInt(_)
ParseInt(ds) ==
    IF ds = <<>> THEN 0
    ELSE 10 * ParseInt(SubSeq(ds, 1, Len(ds) - 1)) + DigitValue(ds[Len(ds)])

RECURSIVE LStrip(_)
LStrip(t) ==
    IF t # <<>> /\ Head(t) \in Whitespace THEN LStrip(Tail(t)) ELSE t

RECURSIVE RStrip(_)
RStrip(t) ==
    IF t # <<>> /\ t[Len(t)] \in Whitespace
    THEN RStrip(SubSeq(t, 1, Len(t) - 1))
    ELSE t

Strip(t) == RStrip(LStrip(t))

\* The first position at or after p whose character is not in chars.
RECURSIVE RunEnd(_, _, _)
RunEnd(t, p, chars) ==
    IF p <= Len(t) /\ t[p] \in chars THEN RunEnd(t, p + 1, chars) ELSE p

\* ^ under re.MULTILINE: the start of the text or just after a newline.
LineStart(t, p) == p = 1 \/ (p - 1 <= Len(t) /\ t[p - 1] = "\n")

\* One attempt of ^\s*(\d+)[\).\s]+ at position p.  The three runs are
\* greedy and their character classes are disjoint where they meet, so
\* backtracking only shortens the digit run, which never helps.
LabelMatch(t, p) ==
    LET a == RunEnd(t, p, Whitespace)
        b == RunEnd(t, a, Digits)
        c == RunEnd(t, b, Separators)
    IN  [ok |-> LineStart(t, p) /\ b > a /\ c > b,
         start |-> p, q_no |-> ParseInt(SubSeq(t, a, b - 1)), end |-> c]

\* pattern.finditer(text): the non-overlapping matches, left to right.
RECURSIVE FindIter(_, _)
FindIter(t, p) ==
    IF p > Len(t) THEN <<>>
    ELSE LET m == LabelMatch(t, p)
         IN  IF m.ok THEN <<m>> \o FindIter(t, m.end)
             ELSE FindIter(t, p + 1)

\* Segments that run to the end of the text instead of the next label.
RECURSIVE SegmentsToEndOfText(_, _, _)
SegmentsToEndOfText(t, matches, i) ==
    IF i > Len(matches) THEN <<>>
    ELSE LET answer == Strip(SubSeq(t, matches[i].end, Len(t)))
             rest == SegmentsToEndOfText(t, matches, i + 1)
         IN  IF answer # <<>>
             THEN <<[question_no |-> matches[i].q_no, answer_text |-> answer]>>
                      \o rest
             ELSE rest

\* Segments whose answers keep their surrounding whitespace.
RECURSIVE SegmentsFromUntrimmed(_, _, _)
SegmentsFromUntrimmed(t, matches, i) ==
    IF i > Len(matches) THEN <<>>
    ELSE LET start == matches[i].end
             end == IF i + 1 <= Len(matches) THEN matches[i + 1].start
                    ELSE Len(t) + 1
             answer == SubSeq(t, start, end - 1)
             rest == SegmentsFromUntrimmed(t, matches, i + 1)
         IN  IF Strip(answer) # <<>>
             THEN <<[question_no |-> matches[i].q_no, answer_text |-> answer]>>
                      \o rest
             ELSE rest

RECURSIVE SegmentsFrom(_, _, _)
SegmentsFrom(t, matches, i) ==
    IF i > Len(matches) THEN <<>>
    ELSE LET start == matches[i].end
             end == IF i + 1 <= Len(matches) THEN matches[i + 1].start
                    ELSE Len(t) + 1
             answer == Strip(SubSeq(t, start, end - 1))
             rest == SegmentsFrom(t, matches, i + 1)
         IN  IF answer # <<>>
             THEN <<[question_no |-> matches[i].q_no, answer_text |-> answer]>>
                      \o rest
             ELSE rest

\* A segmenter that returns an unlabelled text as it came.
SplitWithoutTrim(text) ==
    IF text = <<>> \/ Strip(text) = <<>> THEN <<>>
    ELSE LET matches == FindIter(text, 1)
         IN  IF matches = <<>>
             THEN <<[question_no |-> 1, answer_text |-> text]>>
             ELSE SegmentsFrom(text, matches, 1)

split_numbered_answers(text) ==
    IF text = <<>> \/ Strip(text) = <<>> THEN <<>>
    ELSE LET matches == FindIter(text, 1)
         IN  IF matches = <<>>
             THEN <<[question_no |-> 1, answer_text |-> Strip(text)]>>
             ELSE SegmentsFrom(text, matches, 1)

\* str.lower() on the characters the texts use.
LowerChar(c) == CASE c = "A" -> "a" [] c = "B" -> "b" [] OTHER -> c

Lower(t) == [i \in 1..Len(t) |-> LowerChar(t[i])]

RECURSIVE SumSeq(_)
SumSeq(ns) == IF ns = <<>> THEN 0 ELSE Head(ns) + SumSeq(Tail(ns))

Max(S) == CHOOSE x \in S : \A y \in S : y <= x

\* round(n / d, 2) on thousandths: the nearest multiple of 10.  (No input of
\* the model lies on a tie, where Python rounds the binary value.)
Round2Div(n, d) == 10 * ((n + 5 * d) \div (10 * d))

(***************************************************************************)
(* Heuristic scorer.                                                       *)
(***************************************************************************)
SEMANTIC_CONSTANT == 780
KEYWORD_SCORE == 800
GRAMMAR_SCORE == 900

semantic_score(student_text, model_answer) == SEMANTIC_CONSTANT

Feedback(kind, per_q, adjusted) ==
    [kind |-> kind,
     lines |-> [i \in 1..Len(per_q) |->
                   <<per_q[i].question_no, Round2Div(per_q[i].score, 1)>>],
     adjusted |-> adjusted]

EvaluateTextSummingSegments(text, model_answer) ==
    LET segments == split_numbered_answers(text)
        question_details ==
            IF segments # <<>>
            THEN [i \in 1..Len(segments) |->
                     [question_no |-> segments[i].question_no,
                      answer_text |-> segments[i].answer_text,
                      score |-> semantic_score(segments[i].answer_text, model_answer),
                      feedback |-> ""]]
            ELSE <<[question_no |-> 1, answer_text |-> text,
                    score |-> semantic_score(text, model_answer),
                    feedback |-> ""]>>
        n == Len(question_details)
        total == SumSeq([i \in 1..n |-> question_details[i].score])
    IN  [final_score |-> Round2Div(total + KEYWORD_SCORE + GRAMMAR_SCORE, 3),
         feedback |-> Feedback("heuristic", question_details, 0),
         per_q |-> question_details]

evaluate_text_by_questions(text, model_answer) ==
    LET segments == split_numbered_answers(text)
        question_details ==
            IF segments # <<>>
            THEN [i \in 1..Len(segments) |->
                     [question_no |-> segments[i].question_no,
                      answer_text |-> segments[i].answer_text,
                      score |-> semantic_score(segments[i].answer_text, model_answer),
                      feedback |-> ""]]
            ELSE <<[question_no |-> 1, answer_text |-> text,
                    score |-> semantic_score(text, model_answer),
                    feedback |-> ""]>>
        n == Len(question_details)
        total == SumSeq([i \in 1..n |-> question_details[i].score])
        \* (sum / len + keyword + grammar) / 3, as one quotient
        final_score ==
            Round2Div(total + n * (KEYWORD_SCORE + GRAMMAR_SCORE), 3 * n)
    IN  [final_score |-> final_score,
         feedback |-> Feedback("heuristic", question_details, 0),
         per_q |-> question_details]

(***************************************************************************)
(* Remote rubric scorer: the values a response can carry and how the       *)
(* evaluation reads them.                                                  *)
(***************************************************************************)
IntNo(n) == [kind |-> "int", n |-> n, s |-> <<>>]
StrNo(s) == [kind |-> "str", n |-> 0, s |-> s]
NumScore(n) == [kind |-> "num", n |-> n]
BadScore == [kind |-> "str", n |-> 0]
NoScore == [kind |-> "missing", n |-> 0]

\* re.search(r"\\d+", s): the raw string spells a backslash followed by one
\* or more letters d.  A match is handed to int(), which raises ValueError
\* on it; the handler turns that into None, the same as no match.
BackslashDMatch(s) ==
    \E i \in 1..Len(s) : s[i] = "\\" /\ i + 1 <= Len(s) /\ s[i + 1] = "d"

\* The parsed question number as a sequence: <<n>>, or <<>> for None.
ParseQuestionNo(q_no_raw) ==
    IF q_no_raw.kind = "int" THEN <<q_no_raw.n>>
    ELSE IF BackslashDMatch(q_no_raw.s) THEN <<>> ELSE <<>>

\* float(item.get("score", 0.0)), 0.0 on TypeError or ValueError
ParseScore(raw) == IF raw.kind = "num" THEN raw.n ELSE 0

PayloadItems(exam_questions, segments) ==
    [i \in 1..Len(exam_questions) |->
        LET q == exam_questions[i].question_no
            \* answers_by_q: the last segment of a number wins
            hits == {j \in 1..Len(segments) : segments[j].question_no = q}
        IN  [question_no |-> q,
             max_marks |-> exam_questions[i].marks,
             student_answer |-> IF hits = {} THEN <<>>
                                ELSE segments[Max(hits)].answer_text]]

RECURSIVE ParseItems(_, _)
ParseItems(questions_out, payload_items) ==
    IF questions_out = <<>> THEN <<>>
    ELSE LET item == Head(questions_out)
             q_no == ParseQuestionNo(item.question_no)
             rest == ParseItems(Tail(questions_out), payload_items)
             hits == {j \in 1..Len(payload_items) :
                         payload_items[j].question_no = q_no[1]}
         IN  IF q_no = <<>> THEN rest
             ELSE <<[question_no |-> q_no[1],
                     answer_text |-> IF hits = {} THEN <<>>
                                     ELSE payload_items[CHOOSE j \in hits :
                                              \A k \in hits : j <= k].student_answer,
                     score |-> ParseScore(item.score),
                     feedback |-> item.feedback]>> \o rest

\* A remote evaluation that sums the items whatever total the reply has.
RemoteEvaluationSummed(exam_questions, segments, gemini_result) ==
    LET payload_items == PayloadItems(exam_questions, segments)
        per_q == ParseItems(gemini_result.questions, payload_items)
        total_score == SumSeq([i \in 1..Len(per_q) |-> per_q[i].score])
    IN  [final_score |-> Round2Div(total_score, 1),
         feedback |-> Feedback("llm", per_q, 0),
         per_q |-> per_q]

\* The try block of the evaluation once evaluate_answers_with_gemini returned.
RemoteEvaluation(exam_questions, segments, gemini_result) ==
    LET payload_items == PayloadItems(exam_questions, segments)
        per_q == ParseItems(gemini_result.questions, payload_items)
        total_score ==
            IF gemini_result.total_score # <<>> THEN gemini_result.total_score[1]
            ELSE SumSeq([i \in 1..Len(per_q) |-> per_q[i].score])
    IN  [final_score |-> Round2Div(total_score, 1),
         feedback |-> Feedback("llm", per_q, 0),
         per_q |-> per_q]

(***************************************************************************)
(* The database: the committed rows of each table.  question_evaluations   *)
(* is kept in primary-key order, so that "the first row" and "the last     *)
(* row" of a query mean what they mean in the code.                        *)
(***************************************************************************)
VARIABLES exams, answer_sheets, extracted_text, evaluations,
          question_evaluations, reports, last, inflight

vars == <<exams, answer_sheets, extracted_text, evaluations,
          question_evaluations, reports, last, inflight>>

tables == <<exams, answer_sheets, extracted_text, evaluations,
            question_evaluations, reports>>

PENDING == "Pending"
GRADED == "Graded"
REVIEWED == "Reviewed"
AnswerSheetStatus == {PENDING, GRADED, REVIEWED}

StudentIds == 1..NumStudents
Times == 1..MaxTime

\* An integer primary key of SQLite: one more than the largest in the table.
NextId(ids) == IF ids = {} THEN 1 ELSE Max(ids) + 1

\* The elements of a set of integers in ascending order.
RECURSIVE Ascending(_)
Ascending(S) ==
    IF S = {} THEN <<>>
    ELSE LET m == CHOOSE x \in S : \A y \in S : x <= y
         IN  <<m>> \o Ascending(S \ {m})

ExamQuestion(question_no, marks) == [question_no |-> question_no, marks |-> marks]

QuestionEvaluation(eval_id, question_no, score, feedback) ==
    [eval_id |-> eval_id, question_no |-> question_no, score |-> score,
     feedback |-> feedback]

\* Feedback columns hold a text or NULL.
NULL == "NULL"

\* The exams a teacher creates in the model: one with the questions 1, 2
\* and 3 (5 marks each, posted out of order), one without questions and
\* without rubric text.  Question numbers are unique within an exam.
ExamForms ==
    {[questions |-> <<ExamQuestion(2, 5000), ExamQuestion(1, 5000),
                      ExamQuestion(3, 5000)>>,
      rubric_details |-> ""],
     [questions |-> <<>>, rubric_details |-> ""]}

\* What the OCR backends return in the model: text and confidence.
\* The empty text of a failed OCR, and a text that answers question 1 twice,
\* question 3 and a question 4, and not question 2.
OcrResults ==
    {[text |-> <<>>, confidence |-> 0],
     [text |-> <<"1", ".", "A", "\n", "1", ")", "b", "\n", "3", ".", "c",
                 "\n", "4", " ", "d">>,
      confidence |-> 980]}

\* A rewriting the grammar model may return: the numbering is gone.
GrammarCorrections == {<<"a", " ", "b">>}

\* preprocess_text: "" for empty input; else the corrected text of one of
\* the grammar backends, or the raw text when none is available.
preprocess_text(raw_text) ==
    IF raw_text = <<>> THEN {<<>>} ELSE {raw_text} \cup GrammarCorrections

SheetById(sheet_id) == {s \in answer_sheets : s.sheet_id = sheet_id}
TextOfSheet(sheet_id) == {t \in extracted_text : t.sheet_id = sheet_id}
EvaluationsOfText(text_id) == {e \in evaluations : e.text_id = text_id}
ExamById(exam_id) == {e \in exams : e.exam_id = exam_id}

\* query.first(): the row with the smallest primary key.
FirstEvaluation(rows) == CHOOSE r \in rows : \A o \in rows : r.eval_id <= o.eval_id
FirstReport(rows) == CHOOSE r \in rows : \A o \in rows : r.report_id <= o.report_id

Request(op, key, outcome, wrote) ==
    [op |-> op, key |-> key, outcome |-> outcome, wrote |-> wrote]

Init ==
    /\ exams = {}
    /\ answer_sheets = {}
    /\ extracted_text = {}
    /\ evaluations = {}
    /\ question_evaluations = <<>>
    /\ reports = {}
    /\ last = Request("init", <<>>, "ok", <<>>)
    /\ inflight = <<>>

\* The rubric text of a new exam: built from its questions when it has
\* some, else the posted rubric_details.
RubricText(form) ==
    IF form.questions # <<>> THEN "questions" ELSE form.rubric_details

create_exam(form) ==
    /\ Cardinality(exams) < MaxExams
    /\ NextId({e.exam_id : e \in exams}) <= MaxExams
    /\ exams' = exams \cup
          {[exam_id |-> NextId({e.exam_id : e \in exams}),
            questions |-> form.questions,
            rubric_details |-> RubricText(form)]}
    /\ last' = Request("create_exam", <<>>, "ok", <<>>)
    /\ UNCHANGED <<answer_sheets, extracted_text, evaluations,
                   question_evaluations, reports>>

upload_answersheet(student_id, exam_id) ==
    /\ Cardinality(answer_sheets) < MaxSheets
    /\ NextId({s.sheet_id : s \in answer_sheets}) <= MaxSheets
    /\ IF ExamById(exam_id) = {}
       THEN /\ last' = Request("upload_answersheet", <<>>, "rejected", <<>>)
            /\ UNCHANGED tables
       ELSE /\ answer_sheets' = answer_sheets \cup
                  {[sheet_id |-> NextId({s.sheet_id : s \in answer_sheets}),
                    student_id |-> student_id, exam_id |-> exam_id,
                    status |-> PENDING]}
            /\ last' = Request("upload_answersheet", <<>>, "ok", <<>>)
            /\ UNCHANGED <<exams, extracted_text, evaluations,
                           question_evaluations, reports>>

\* The Extract Text step of the web upload page: a new sheet and its text.
upload_page_extract(student_id, exam_id, ocr, cleaned_text) ==
    /\ Cardinality(answer_sheets) < MaxSheets
    /\ NextId({s.sheet_id : s \in answer_sheets}) <= MaxSheets
    /\ cleaned_text \in preprocess_text(ocr.text)
    /\ IF ExamById(exam_id) = {}
       THEN /\ last' = Request("upload_page_extract", <<>>, "rejected", <<>>)
            /\ UNCHANGED tables
       ELSE LET sheet_id == NextId({s.sheet_id : s \in answer_sheets})
            IN  /\ answer_sheets' = answer_sheets \cup
                      {[sheet_id |-> sheet_id, student_id |-> student_id,
                        exam_id |-> exam_id, status |-> PENDING]}
                /\ extracted_text' = extracted_text \cup
                      {[text_id |-> NextId({t.text_id : t \in extracted_text}),
                        sheet_id |-> sheet_id, raw_text |-> ocr.text,
                        cleaned_text |-> cleaned_text,
                        extraction_confidence |-> ocr.confidence]}
                /\ last' = Request("upload_page_extract", <<sheet_id>>, "ok", <<>>)
                /\ UNCHANGED <<exams, evaluations, question_evaluations, reports>>

OcrRunAddingText(sheet_id, ocr) ==
    IF SheetById(sheet_id) = {}
    THEN /\ last' = Request("ocr_run", <<sheet_id>>, "rejected", <<>>)
         /\ UNCHANGED tables
    ELSE /\ extracted_text' = extracted_text \cup
               {[text_id |-> NextId({t.text_id : t \in extracted_text}),
                 sheet_id |-> sheet_id, raw_text |-> ocr.text,
                 cleaned_text |-> Lower(Strip(ocr.text)),
                 extraction_confidence |-> ocr.confidence]}
         /\ last' = Request("ocr_run", <<sheet_id>>, "ok", <<ocr>>)
         /\ UNCHANGED <<exams, answer_sheets, evaluations,
                        question_evaluations, reports>>

ocr_run(sheet_id, ocr) ==
    IF SheetById(sheet_id) = {}
    THEN /\ last' = Request("ocr_run", <<sheet_id>>, "rejected", <<>>)
         /\ UNCHANGED tables
    ELSE LET found == TextOfSheet(sheet_id)
             cleaned_text == Lower(Strip(ocr.text))
         IN  /\ extracted_text' =
                   IF found = {}
                   THEN extracted_text \cup
                          {[text_id |-> NextId({t.text_id : t \in extracted_text}),
                            sheet_id |-> sheet_id, raw_text |-> ocr.text,
                            cleaned_text |-> cleaned_text,
                            extraction_confidence |-> ocr.confidence]}
                   ELSE {IF t \in found
                         THEN [t EXCEPT !.raw_text = ocr.text,
                                        !.cleaned_text = cleaned_text,
                                        !.extraction_confidence = ocr.confidence]
                         ELSE t : t \in extracted_text}
             /\ last' = Request("ocr_run", <<sheet_id>>, "ok", <<ocr>>)
             /\ UNCHANGED <<exams, answer_sheets, evaluations,
                            question_evaluations, reports>>

preprocess(sheet_id, cleaned_text) ==
    LET found == TextOfSheet(sheet_id)
    IN  IF found = {}
        THEN /\ last' = Request("preprocess", <<sheet_id>>, "rejected", <<>>)
             /\ UNCHANGED tables
        ELSE /\ \E t \in found : cleaned_text \in preprocess_text(t.raw_text)
             /\ extracted_text' =
                   {IF t \in found THEN [t EXCEPT !.cleaned_text = cleaned_text]
                    ELSE t : t \in extracted_text}
             /\ last' = Request("preprocess", <<sheet_id>>, "ok", <<>>)
             /\ UNCHANGED <<exams, answer_sheets, evaluations,
                            question_evaluations, reports>>

(***************************************************************************)
(* Evaluation.                                                             *)
(***************************************************************************)
\* sorted(exam.questions, key=lambda q: q.question_no), a stable sort
RECURSIVE SortedQuestions(_)
SortedQuestions(qs) ==
    IF qs = <<>> THEN <<>>
    ELSE LET i == CHOOSE i \in 1..Len(qs) :
                     /\ \A j \in 1..Len(qs) : qs[i].question_no <= qs[j].question_no
                     /\ \A j \in 1..(i - 1) : qs[j].question_no # qs[i].question_no
         IN  <<qs[i]>> \o
             SortedQuestions(SubSeq(qs, 1, i - 1) \o SubSeq(qs, i + 1, Len(qs)))

\* What a call of the remote scorer can come to.  import_error: the client
\* module or one of its imports (PIL, google.generativeai) is not
\* importable; config_error: GeminiConfigError, no API key; exception: a
\* transport error, a reply that is not JSON or not of the expected shape;
\* response: a parsed reply.
Failure(kind) == [kind |-> kind, questions |-> <<>>, total_score |-> <<>>]

Response(questions, total_score) ==
    [kind |-> "response", questions |-> questions, total_score |-> total_score]

Item(question_no, score, feedback) ==
    [question_no |-> question_no, score |-> score, feedback |-> feedback]

RemoteOutcomes ==
    {Failure("import_error"), Failure("config_error"), Failure("exception"),
     Response(<<Item(IntNo(1), NumScore(4000), "good"),
                Item(IntNo(2), NumScore(0), "unanswered"),
                Item(IntNo(3), NumScore(2500), "partly")>>, <<7000>>),
     Response(<<Item(StrNo(<<"Q", "2">>), NumScore(3000), ""),
                Item(IntNo(1), BadScore, ""),
                Item(IntNo(4), NumScore(1000), "")>>, <<>>),
     \* a reply whose scores leave the range the prompt asks for
     Response(<<Item(IntNo(1), NumScore(6000), "excellent"),
                Item(IntNo(2), NumScore(-1000), "")>>, <<>>)}

ModelAnswers == {"", "m1"}
DEFAULT_REFERENCE == "Reference answer not provided."

Scored(raised, model_answer_ref, r) ==
    [raised |-> raised, model_answer_ref |-> model_answer_ref,
     final_score |-> r.final_score, feedback |-> r.feedback, per_q |-> r.per_q]

\* "except GeminiConfigError" names a local that the failed import never
\* bound: evaluating the clause raises UnboundLocalError, which leaves the
\* handler.
Raised == [raised |-> TRUE, model_answer_ref |-> "", final_score |-> 0,
           feedback |-> Feedback("none", <<>>, 0), per_q |-> <<>>]

\* evaluate_sheet, from the segmentation to the scored result.
ScoreSheet(extracted, exam_questions, model_answer, remote) ==
    LET segments == split_numbered_answers(extracted.raw_text)
        heuristic == evaluate_text_by_questions(extracted.raw_text, model_answer)
    IN  IF exam_questions = <<>> THEN Scored(FALSE, model_answer, heuristic)
        ELSE IF remote.kind = "import_error" THEN Raised
        ELSE IF remote.kind = "response"
        THEN Scored(FALSE, model_answer,
                    RemoteEvaluation(exam_questions, segments, remote))
        ELSE Scored(FALSE, model_answer, heuristic)

\* The same part of the web upload page's evaluate action.
ScoreSheetWeb(extracted, exam, exam_questions, remote) ==
    LET segments == split_numbered_answers(extracted.raw_text)
        model_answer_text ==
            IF exam.rubric_details # "" THEN exam.rubric_details
            ELSE IF exam_questions # <<>> THEN "questions"
            ELSE DEFAULT_REFERENCE
        fallback_text ==
            IF exam.rubric_details # "" THEN exam.rubric_details
            ELSE DEFAULT_REFERENCE
        heuristic == evaluate_text_by_questions(extracted.cleaned_text, fallback_text)
    IN  IF exam_questions = <<>> THEN Scored(FALSE, fallback_text, heuristic)
        ELSE IF remote.kind = "import_error" THEN Raised
        ELSE IF remote.kind = "response"
        THEN Scored(FALSE, model_answer_text,
                    RemoteEvaluation(exam_questions, segments, remote))
        ELSE Scored(FALSE, fallback_text, heuristic)

\* An update that leaves the timestamp of the Evaluation as it was.
UpsertEvaluationStaleTimestamp(text_id, model_answer_ref, score, feedback, now) ==
    LET found == EvaluationsOfText(text_id)
    IN  IF found = {}
        THEN evaluations \cup
               {[eval_id |-> NextId({e.eval_id : e \in evaluations}),
                 text_id |-> text_id, model_answer_ref |-> model_answer_ref,
                 score |-> score, feedback |-> feedback, evaluated_on |-> now]}
        ELSE LET evaluation == FirstEvaluation(found)
             IN  (evaluations \ {evaluation}) \cup
                   {[evaluation EXCEPT !.model_answer_ref = model_answer_ref,
                                       !.score = score, !.feedback = feedback]}

\* Create the Evaluation of text_id, or update the one found.
UpsertEvaluation(text_id, model_answer_ref, score, feedback, now) ==
    LET found == EvaluationsOfText(text_id)
    IN  IF found = {}
        THEN evaluations \cup
               {[eval_id |-> NextId({e.eval_id : e \in evaluations}),
                 text_id |-> text_id, model_answer_ref |-> model_answer_ref,
                 score |-> score, feedback |-> feedback, evaluated_on |-> now]}
        ELSE LET evaluation == FirstEvaluation(found)
             IN  (evaluations \ {evaluation}) \cup
                   {[evaluation EXCEPT !.model_answer_ref = model_answer_ref,
                                       !.score = score, !.feedback = feedback,
                                       !.evaluated_on = now]}

\* dict comprehension over a list keyed by question_no: the last entry of a
\* number wins; 0 if the number has none.
LastIndexOfNo(items, q) ==
    LET hits == {i \in 1..Len(items) : items[i].question_no = q}
    IN  IF hits = {} THEN 0 ELSE Max(hits)

\* existing_q of one Evaluation: the index of the last row of the number.
LastRowOfNo(rows, eval_id, q) ==
    LET hits == {i \in 1..Len(rows) : /\ rows[i].eval_id = eval_id
                                      /\ rows[i].question_no = q}
    IN  IF hits = {} THEN 0 ELSE Max(hits)

\* Writes that follow the numbering of the scored items instead of the
\* exam's questions.
WritesByScoredItems(exam_questions, per_q, keep_feedback) ==
    [i \in 1..Len(per_q) |->
        [question_no |-> per_q[i].question_no, score |-> per_q[i].score,
         feedback |-> NULL, sets_feedback |-> TRUE]]

\* The per-question writes when the exam defines questions: one per exam
\* question, by the scored item of its number or as unanswered.
AlignedWrites(exam_questions, per_q, keep_feedback) ==
    [i \in 1..Len(exam_questions) |->
        LET q == exam_questions[i].question_no
            j == LastIndexOfNo(per_q, q)
        IN  IF j # 0
            THEN [question_no |-> q, score |-> per_q[j].score,
                  feedback |-> IF keep_feedback /\ per_q[j].feedback # ""
                               THEN per_q[j].feedback ELSE NULL,
                  sets_feedback |-> TRUE]
            ELSE [question_no |-> q, score |-> 0, feedback |-> "Unanswered",
                  sets_feedback |-> TRUE]]

\* The writes of the legacy branch: one per scored item.
LegacyWrites(per_q) ==
    [i \in 1..Len(per_q) |->
        [question_no |-> per_q[i].question_no, score |-> per_q[i].score,
         feedback |-> NULL, sets_feedback |-> FALSE]]

\* evaluate_sheet's loop: existing_q is read once, before the loop; a write
\* updates the row found there or adds a row.
RECURSIVE UpsertQuestionScores(_, _, _, _)
UpsertQuestionScores(rows, existing, eval_id, writes) ==
    IF writes = <<>> THEN rows
    ELSE LET w == Head(writes)
             i == LastRowOfNo(existing, eval_id, w.question_no)
             written ==
                 IF i = 0
                 THEN Append(rows, QuestionEvaluation(eval_id, w.question_no,
                                                      w.score, w.feedback))
                 ELSE [rows EXCEPT ![i].score = w.score,
                                   ![i].feedback = IF w.sets_feedback THEN w.feedback
                                                   ELSE rows[i].feedback]
         IN  UpsertQuestionScores(written, existing, eval_id, Tail(writes))

ReplaceKeepingOldRows(rows, existed, eval_id, writes) ==
    rows \o [i \in 1..Len(writes) |->
                QuestionEvaluation(eval_id, writes[i].question_no,
                                   writes[i].score, writes[i].feedback)]

\* The web action: the rows of an Evaluation that existed are deleted, then
\* one row is added per write.
ReplaceQuestionScores(rows, existed, eval_id, writes) ==
    LET Other(qe) == qe.eval_id # eval_id
        kept == IF existed THEN SelectSeq(rows, Other) ELSE rows
    IN  kept \o [i \in 1..Len(writes) |->
                    QuestionEvaluation(eval_id, writes[i].question_no,
                                       writes[i].score, writes[i].feedback)]

\* An evaluation that marks the sheet Reviewed.
EvaluatedStatusReviewed == REVIEWED

\* sheet.status = AnswerSheetStatus.GRADED at the end of an evaluation
EvaluatedStatus == GRADED

SetStatusLeavingSheet(sheet, status) == answer_sheets

SetStatus(sheet, status) ==
    (answer_sheets \ {sheet}) \cup {[sheet EXCEPT !.status = status]}

\* Where the store can fail inside a request, and what of the session is
\* then committed: nothing before db.session.commit() returns.
FailPoints == {"none", "evaluation", "question_row", "commit"}

Staged(evals, rows, sheets) ==
    [evaluations |-> evals, question_evaluations |-> rows, answer_sheets |-> sheets]

\* A store in which what was flushed before the failure stays.
CommittedUpToFailure(fail_at, before, after_evaluation, after_rows, after_status) ==
    CASE fail_at = "none" -> after_status
      [] fail_at = "evaluation" -> before
      [] fail_at = "question_row" -> after_evaluation
      [] fail_at = "commit" -> after_rows

Committed(fail_at, before, after_evaluation, after_rows, after_status) ==
    IF fail_at = "none" THEN after_status ELSE before

\* What a successful evaluation reports of itself: the values it wrote, how
\* the remote scorer ended, and whether it found an Evaluation to update.
Wrote(r, remote, existed, now) ==
    <<[score |-> r.final_score, feedback |-> r.feedback,
       model_answer_ref |-> r.model_answer_ref, evaluated_on |-> now,
       per_q |-> r.per_q, remote |-> remote, existed |-> existed]>>

EvaluateAccepts(sheet) == sheet.status \in {PENDING, GRADED}

\* The remote scorer is called only when the exam defines questions.
RemoteCalls(exam_questions) ==
    IF exam_questions = <<>> THEN {Failure("not_called")} ELSE RemoteOutcomes

evaluate_sheet(sheet_id) ==
    LET op == "evaluate_sheet"
        Reject == /\ last' = Request(op, <<sheet_id>>, "rejected", <<>>)
                  /\ UNCHANGED tables
    IN
    IF SheetById(sheet_id) = {} THEN Reject
    ELSE LET sheet == CHOOSE s \in SheetById(sheet_id) : TRUE IN
    IF ~EvaluateAccepts(sheet) THEN Reject
    ELSE IF TextOfSheet(sheet_id) = {} THEN Reject
    ELSE \E model_answer \in ModelAnswers :
    IF model_answer = ""
    THEN /\ last' = Request(op, <<sheet_id>>, "rejected", <<model_answer>>)
         /\ UNCHANGED tables
    ELSE LET extracted == CHOOSE t \in TextOfSheet(sheet_id) : TRUE
             exam == CHOOSE e \in ExamById(sheet.exam_id) : TRUE
             exam_questions == SortedQuestions(exam.questions)
         IN
         \E remote \in RemoteCalls(exam_questions) :
         \E r \in {ScoreSheet(extracted, exam_questions, model_answer, remote)} :
         IF r.raised
         THEN /\ last' = Request(op, <<sheet_id>>, "raised", <<>>)
              /\ UNCHANGED tables
         ELSE \E fail_at \in FailPoints :
              \E now \in IF fail_at = "none" THEN Times ELSE {Max(Times)} :
              LET existed == EvaluationsOfText(extracted.text_id) # {}
                  evals == UpsertEvaluation(extracted.text_id, r.model_answer_ref,
                                            r.final_score, r.feedback, now)
                  evaluation == FirstEvaluation({e \in evals : e.text_id = extracted.text_id})
                  writes == IF exam_questions # <<>>
                            THEN AlignedWrites(exam_questions, r.per_q, FALSE)
                            ELSE LegacyWrites(r.per_q)
                  rows == UpsertQuestionScores(question_evaluations,
                                               question_evaluations,
                                               evaluation.eval_id, writes)
                  before == Staged(evaluations, question_evaluations, answer_sheets)
                  db == Committed(fail_at, before,
                                  Staged(evals, question_evaluations, answer_sheets),
                                  Staged(evals, rows, answer_sheets),
                                  Staged(evals, rows,
                                         SetStatus(sheet, EvaluatedStatus)))
              IN  /\ evaluations' = db.evaluations
                  /\ question_evaluations' = db.question_evaluations
                  /\ answer_sheets' = db.answer_sheets
                  /\ last' = IF fail_at = "none"
                             THEN Request(op, <<sheet_id>>, "ok",
                                          Wrote(r, remote, existed, now))
                             ELSE Request(op, <<sheet_id>>, "error", <<>>)
                  /\ UNCHANGED <<exams, extracted_text, reports>>

\* The web upload page has no check of the status.
upload_page_evaluate(sheet_id) ==
    LET op == "upload_page_evaluate"
        Reject == /\ last' = Request(op, <<sheet_id>>, "rejected", <<>>)
                  /\ UNCHANGED tables
    IN
    IF SheetById(sheet_id) = {} \/ TextOfSheet(sheet_id) = {} THEN Reject
    ELSE LET sheet == CHOOSE s \in SheetById(sheet_id) : TRUE
             extracted == CHOOSE t \in TextOfSheet(sheet_id) : TRUE
             exam == CHOOSE e \in ExamById(sheet.exam_id) : TRUE
             exam_questions == SortedQuestions(exam.questions)
         IN
         \E remote \in RemoteCalls(exam_questions) :
         \E r \in {ScoreSheetWeb(extracted, exam, exam_questions, remote)} :
         IF r.raised
         THEN /\ last' = Request(op, <<sheet_id>>, "raised", <<>>)
              /\ UNCHANGED tables
         ELSE \E fail_at \in FailPoints :
              \E now \in IF fail_at = "none" THEN Times ELSE {Max(Times)} :
              LET existed == EvaluationsOfText(extracted.text_id) # {}
                  evals == UpsertEvaluation(extracted.text_id, r.model_answer_ref,
                                            r.final_score, r.feedback, now)
                  evaluation == FirstEvaluation({e \in evals : e.text_id = extracted.text_id})
                  writes == IF exam_questions # <<>>
                            THEN AlignedWrites(exam_questions, r.per_q, TRUE)
                            ELSE LegacyWrites(r.per_q)
                  rows == ReplaceQuestionScores(question_evaluations, existed,
                                                evaluation.eval_id, writes)
                  before == Staged(evaluations, question_evaluations, answer_sheets)
                  db == Committed(fail_at, before,
                                  Staged(evals, question_evaluations, answer_sheets),
                                  Staged(evals, rows, answer_sheets),
                                  Staged(evals, rows,
                                         SetStatus(sheet, EvaluatedStatus)))
              IN  /\ evaluations' = db.evaluations
                  /\ question_evaluations' = db.question_evaluations
                  /\ answer_sheets' = db.answer_sheets
                  /\ last' = IF fail_at = "none"
                             THEN Request(op, <<sheet_id>>, "ok",
                                          Wrote(r, remote, existed, now))
                             ELSE Request(op, <<sheet_id>>, "error", <<>>)
                  /\ UNCHANGED <<exams, extracted_text, reports>>

(***************************************************************************)
(* Manual override and question-wise review.                               *)
(***************************************************************************)
\* The score of an override request: absent, not a number, or a number.
OverrideScores == {NoScore, BadScore, NumScore(3000)}
OverrideFeedback == {<<>>, <<Feedback("manual", <<>>, 0)>>}

OverrideAccepts(sheet) == sheet.status = GRADED

OverrideMarkingReviewedFirst(sheet_id) ==
    LET op == "override_review"
        Reject == /\ last' = Request(op, <<sheet_id>>, "rejected", <<>>)
                  /\ UNCHANGED tables
    IN
    IF SheetById(sheet_id) = {} THEN Reject
    ELSE LET sheet == CHOOSE s \in SheetById(sheet_id) : TRUE
             found == UNION {EvaluationsOfText(t.text_id) : t \in TextOfSheet(sheet_id)}
         IN
    IF ~OverrideAccepts(sheet) THEN Reject
    ELSE IF found = {} THEN Reject
    ELSE \E score \in OverrideScores :
    IF score.kind # "num"
    THEN /\ last' = Request(op, <<sheet_id>>, "rejected", <<score>>)
         /\ answer_sheets' = SetStatus(sheet, REVIEWED)
         /\ UNCHANGED <<exams, extracted_text, evaluations,
                        question_evaluations, reports>>
    ELSE \E feedback \in OverrideFeedback, now \in Times :
         LET evaluation == FirstEvaluation(found)
         IN  /\ evaluations' = (evaluations \ {evaluation}) \cup
                   {[evaluation EXCEPT
                        !.score = score.n,
                        !.feedback = IF feedback # <<>> THEN feedback[1]
                                     ELSE evaluation.feedback,
                        !.evaluated_on = now]}
             /\ answer_sheets' = SetStatus(sheet, REVIEWED)
             /\ last' = Request(op, <<sheet_id>>, "ok", <<>>)
             /\ UNCHANGED <<exams, extracted_text, question_evaluations, reports>>

override_review(sheet_id) ==
    LET op == "override_review"
        Reject == /\ last' = Request(op, <<sheet_id>>, "rejected", <<>>)
                  /\ UNCHANGED tables
    IN
    IF SheetById(sheet_id) = {} THEN Reject
    ELSE LET sheet == CHOOSE s \in SheetById(sheet_id) : TRUE
             found == UNION {EvaluationsOfText(t.text_id) : t \in TextOfSheet(sheet_id)}
         IN
    IF ~OverrideAccepts(sheet) THEN Reject
    ELSE IF found = {} THEN Reject
    ELSE \E score \in OverrideScores :
    IF score.kind # "num"
    THEN /\ last' = Request(op, <<sheet_id>>, "rejected", <<score>>)
         /\ UNCHANGED tables
    ELSE \E feedback \in OverrideFeedback, now \in Times :
         LET evaluation == FirstEvaluation(found)
         IN  /\ evaluations' = (evaluations \ {evaluation}) \cup
                   {[evaluation EXCEPT
                        !.score = score.n,
                        !.feedback = IF feedback # <<>> THEN feedback[1]
                                     ELSE evaluation.feedback,
                        !.evaluated_on = now]}
             /\ answer_sheets' = SetStatus(sheet, REVIEWED)
             /\ last' = Request(op, <<sheet_id>>, "ok", <<>>)
             /\ UNCHANGED <<exams, extracted_text, question_evaluations, reports>>

\* The forms the review page can post: per listed question number a score.
ReviewForms ==
    {<<>>,
     <<Item(1, NumScore(1000), "")>>,
     <<Item(1, NumScore(1000), ""), Item(2, NumScore(2000), "note")>>,
     <<Item(1, NumScore(1000), ""), Item(2, BadScore, "")>>}

ReviewAccepts(sheet) == sheet.status \in {GRADED, REVIEWED}

\* The loop over the posted question numbers: the first row of each number
\* gets the posted score and feedback; a number without a row is skipped; a
\* score that is not a number ends the request.
RECURSIVE ReviewRows(_, _, _)
ReviewRows(rows, eval_id, form) ==
    IF form = <<>> THEN [ok |-> TRUE, rows |-> rows, updated_scores |-> <<>>]
    ELSE LET f == Head(form)
             hits == {i \in 1..Len(rows) : /\ rows[i].eval_id = eval_id
                                           /\ rows[i].question_no = f.question_no}
         IN  IF hits = {} THEN ReviewRows(rows, eval_id, Tail(form))
             ELSE IF f.score.kind # "num"
             THEN [ok |-> FALSE, rows |-> rows, updated_scores |-> <<>>]
             ELSE LET i == CHOOSE i \in hits : \A j \in hits : i <= j
                      rest == ReviewRows(
                                 [rows EXCEPT ![i].score = f.score.n,
                                              ![i].feedback =
                                                  IF f.feedback # "" THEN f.feedback
                                                  ELSE NULL],
                                 eval_id, Tail(form))
                  IN  [rest EXCEPT !.updated_scores = <<f.score.n>> \o @]

ReportsNeverFound(student_id, exam_id) == {}

ReportsOf(student_id, exam_id) ==
    {r \in reports : r.student_id = student_id /\ r.exam_id = exam_id}

\* A part of a report's remarks: the feedback kind of a sheet (0: no sheet
\* is named, the remark is the feedback itself).
Remark(sheet_id, feedback) == [sheet_id |-> sheet_id, kind |-> feedback.kind]

review_page(sheet_id) ==
    LET op == "review_page"
        Reject == /\ last' = Request(op, <<sheet_id>>, "rejected", <<>>)
                  /\ UNCHANGED tables
    IN
    IF SheetById(sheet_id) = {} THEN Reject
    ELSE LET sheet == CHOOSE s \in SheetById(sheet_id) : TRUE
             found == UNION {EvaluationsOfText(t.text_id) : t \in TextOfSheet(sheet_id)}
         IN
    IF ~ReviewAccepts(sheet) THEN Reject
    ELSE IF found = {} THEN Reject
    ELSE \E form \in ReviewForms :
         LET evaluation == FirstEvaluation(found)
             reviewed == ReviewRows(question_evaluations, evaluation.eval_id, form)
         IN
    IF ~reviewed.ok
    THEN /\ last' = Request(op, <<sheet_id>>, "rejected", <<form>>)
         /\ UNCHANGED tables
    ELSE IF reviewed.updated_scores = <<>> THEN Reject
    ELSE \E now \in Times :
         LET final_score == Round2Div(SumSeq(reviewed.updated_scores), 1)
             feedback == [evaluation.feedback EXCEPT !.adjusted = @ + 1]
             existing == ReportsOf(sheet.student_id, sheet.exam_id)
         IN  /\ evaluation.feedback.adjusted < MaxAdjust
             /\ question_evaluations' = reviewed.rows
             /\ evaluations' = (evaluations \ {evaluation}) \cup
                   {[evaluation EXCEPT !.score = final_score,
                                       !.feedback = feedback,
                                       !.evaluated_on = now]}
             /\ answer_sheets' = SetStatus(sheet, REVIEWED)
             /\ reports' =
                   IF existing = {}
                   THEN reports \cup
                          {[report_id |-> NextId({r.report_id : r \in reports}),
                            student_id |-> sheet.student_id,
                            exam_id |-> sheet.exam_id,
                            total_score |-> final_score,
                            remarks |-> <<Remark(0, feedback)>>]}
                   ELSE LET report == FirstReport(existing)
                        IN  (reports \ {report}) \cup
                              {[report EXCEPT !.total_score = final_score,
                                              !.remarks = <<Remark(0, feedback)>>]}
             /\ last' = Request(op, <<sheet_id>>, "ok", <<>>)
             /\ UNCHANGED <<exams, extracted_text>>

(***************************************************************************)
(* Reports.                                                                *)
(***************************************************************************)
\* The sheets of a pair whatever their status.
SheetsOfAnyStatus(student_id, exam_id) ==
    Ascending({s.sheet_id : s \in {x \in answer_sheets :
                  /\ x.student_id = student_id
                  /\ x.exam_id = exam_id}})

\* The Reviewed sheets of a pair, by ascending sheet_id.
ReviewedSheets(student_id, exam_id) ==
    Ascending({s.sheet_id : s \in {x \in answer_sheets :
                  /\ x.student_id = student_id
                  /\ x.exam_id = exam_id
                  /\ x.status = REVIEWED}})

\* The evaluations of the listed sheets that have an extracted text and an
\* evaluation, in the order of the sheets.
RECURSIVE SheetEvaluations(_)
SheetEvaluations(sheet_ids) ==
    IF sheet_ids = <<>> THEN <<>>
    ELSE LET found == UNION {EvaluationsOfText(t.text_id) :
                                t \in TextOfSheet(Head(sheet_ids))}
             rest == SheetEvaluations(Tail(sheet_ids))
         IN  IF found = {} THEN rest
             ELSE <<[sheet_id |-> Head(sheet_ids),
                     evaluation |-> FirstEvaluation(found)]>> \o rest

Scores(sheet_evals) == [i \in 1..Len(sheet_evals) |-> sheet_evals[i].evaluation.score]

Remarks(sheet_evals) ==
    [i \in 1..Len(sheet_evals) |->
        Remark(sheet_evals[i].sheet_id, sheet_evals[i].evaluation.feedback)]

MeanScore(scores) == Round2Div(SumSeq(scores), Len(scores))
BestScore(scores) == Round2Div(Max({scores[i] : i \in 1..Len(scores)}), 1)

NewReport(student_id, exam_id, total_score, remarks) ==
    [report_id |-> NextId({r.report_id : r \in reports}),
     student_id |-> student_id, exam_id |-> exam_id,
     total_score |-> total_score, remarks |-> remarks]

get_report(student_id, exam_id) ==
    LET op == "get_report"
        key == <<student_id, exam_id>>
        sheet_evals == SheetEvaluations(ReviewedSheets(student_id, exam_id))
    IN  IF ReportsOf(student_id, exam_id) # {}
        THEN /\ last' = Request(op, key, "ok", <<>>)
             /\ UNCHANGED tables
        ELSE IF sheet_evals = <<>>
        THEN /\ last' = Request(op, key, "rejected", <<>>)
             /\ UNCHANGED tables
        ELSE /\ reports' = reports \cup
                   {NewReport(student_id, exam_id, MeanScore(Scores(sheet_evals)),
                              Remarks(sheet_evals))}
             /\ last' = Request(op, key, "ok", <<>>)
             /\ UNCHANGED <<exams, answer_sheets, extracted_text, evaluations,
                            question_evaluations>>

teacher_report(student_id, exam_id) ==
    LET op == "teacher_report"
        key == <<student_id, exam_id>>
        sheet_evals == SheetEvaluations(ReviewedSheets(student_id, exam_id))
    IN  IF ReportsOf(student_id, exam_id) # {}
        THEN /\ last' = Request(op, key, "ok", <<>>)
             /\ UNCHANGED tables
        ELSE IF sheet_evals = <<>>
        THEN /\ last' = Request(op, key, "rejected", <<>>)
             /\ UNCHANGED tables
        ELSE /\ reports' = reports \cup
                   {NewReport(student_id, exam_id, BestScore(Scores(sheet_evals)),
                              Remarks(sheet_evals))}
             /\ last' = Request(op, key, "ok", <<>>)
             /\ UNCHANGED <<exams, answer_sheets, extracted_text, evaluations,
                            question_evaluations>>

\* The student's report page adds a report for each exam of the student
\* that has Reviewed sheets with scores and no report yet.
RECURSIVE StudentReports(_, _, _)
StudentReports(student_id, exam_ids, acc) ==
    IF exam_ids = <<>> THEN acc
    ELSE LET exam_id == Head(exam_ids)
             sheet_evals == SheetEvaluations(ReviewedSheets(student_id, exam_id))
             existing == {r \in acc : r.student_id = student_id /\ r.exam_id = exam_id}
         IN  IF existing # {} \/ sheet_evals = <<>>
             THEN StudentReports(student_id, Tail(exam_ids), acc)
             ELSE StudentReports(student_id, Tail(exam_ids),
                     acc \cup {[report_id |-> NextId({r.report_id : r \in acc}),
                                student_id |-> student_id, exam_id |-> exam_id,
                                total_score |-> BestScore(Scores(sheet_evals)),
                                remarks |-> Remarks(sheet_evals)]})

student_report(student_id) ==
    LET exam_ids == Ascending({s.exam_id : s \in {x \in answer_sheets :
                        x.student_id = student_id /\ x.status = REVIEWED}})
    IN  /\ reports' = StudentReports(student_id, exam_ids, reports)
        /\ last' = Request("student_report", <<student_id>>, "ok", <<>>)
        /\ UNCHANGED <<exams, answer_sheets, extracted_text, evaluations,
                       question_evaluations>>

(***************************************************************************)
(* Deletion.  Deleting an Evaluation deletes its question rows (cascade).  *)
(***************************************************************************)
DeleteSheets(sheet_ids) ==
    LET text_ids == {t.text_id : t \in {x \in extracted_text : x.sheet_id \in sheet_ids}}
        eval_ids == {e.eval_id : e \in {x \in evaluations : x.text_id \in text_ids}}
        Kept(qe) == qe.eval_id \notin eval_ids
    IN  /\ answer_sheets' = {s \in answer_sheets : s.sheet_id \notin sheet_ids}
        /\ extracted_text' = {t \in extracted_text : t.sheet_id \notin sheet_ids}
        /\ evaluations' = {e \in evaluations : e.text_id \notin text_ids}
        /\ question_evaluations' = SelectSeq(question_evaluations, Kept)

delete_student_evaluation(student_id, exam_id) ==
    /\ DeleteSheets({s.sheet_id : s \in {x \in answer_sheets :
                        x.student_id = student_id /\ x.exam_id = exam_id}})
    /\ reports' = reports \ ReportsOf(student_id, exam_id)
    /\ last' = Request("delete_student_evaluation", <<student_id, exam_id>>, "ok", <<>>)
    /\ UNCHANGED exams

DeleteExamKeepingReports(exam_id) ==
    /\ ExamById(exam_id) # {}
    /\ DeleteSheets({s.sheet_id : s \in {x \in answer_sheets : x.exam_id = exam_id}})
    /\ exams' = exams \ ExamById(exam_id)
    /\ last' = Request("delete_exam", <<exam_id>>, "ok", <<>>)
    /\ UNCHANGED reports

delete_exam_with_children(exam_id) ==
    /\ ExamById(exam_id) # {}
    /\ DeleteSheets({s.sheet_id : s \in {x \in answer_sheets : x.exam_id = exam_id}})
    /\ reports' = {r \in reports : r.exam_id # exam_id}
    /\ exams' = exams \ ExamById(exam_id)
    /\ last' = Request("delete_exam", <<exam_id>>, "ok", <<>>)

(***************************************************************************)
(* The requests, one at a time.                                            *)
(***************************************************************************)
SheetIds == 1..MaxSheets
ExamIds == 1..MaxExams

Next ==
    \/ \E form \in ExamForms : create_exam(form)
          /\ UNCHANGED inflight
    \/ \E st \in StudentIds, ex \in ExamIds : upload_answersheet(st, ex)
          /\ UNCHANGED inflight
    \/ \E st \in StudentIds, ex \in ExamIds, ocr \in OcrResults :
          \E cleaned \in preprocess_text(ocr.text) :
             upload_page_extract(st, ex, ocr, cleaned)
          /\ UNCHANGED inflight
    \/ \E sh \in SheetIds, ocr \in OcrResults : ocr_run(sh, ocr)
          /\ UNCHANGED inflight
    \/ \E sh \in SheetIds, cleaned \in GrammarCorrections \cup
                              {t.raw_text : t \in extracted_text} :
          preprocess(sh, cleaned)
          /\ UNCHANGED inflight
    \/ \E sh \in SheetIds : evaluate_sheet(sh)
          /\ UNCHANGED inflight
    \/ \E sh \in SheetIds : upload_page_evaluate(sh)
          /\ UNCHANGED inflight
    \/ \E sh \in SheetIds : override_review(sh)
          /\ UNCHANGED inflight
    \/ \E sh \in SheetIds : review_page(sh)
          /\ UNCHANGED inflight
    \/ \E st \in StudentIds, ex \in ExamIds : get_report(st, ex)
          /\ UNCHANGED inflight
    \/ \E st \in StudentIds, ex \in ExamIds : teacher_report(st, ex)
          /\ UNCHANGED inflight
    \/ \E st \in StudentIds : student_report(st)
          /\ UNCHANGED inflight
    \/ \E st \in StudentIds, ex \in ExamIds : delete_student_evaluation(st, ex)
          /\ UNCHANGED inflight
    \/ \E ex \in ExamIds : delete_exam_with_children(ex)
          /\ UNCHANGED inflight

Spec == Init /\ [][Next]_vars

(***************************************************************************)
(* Two workers serving POST /evaluate/<sheet_id>.  A request reads the     *)
(* sheet, scores the text and looks the Evaluation up by text_id           *)
(* (evaluate_lookup); later it adds or updates the Evaluation, writes the  *)
(* per-question rows, sets the status and commits (evaluate_commit).  The  *)
(* store serialises writers, so the second part is one step.  inflight     *)
(* holds, per worker, the request it serves.                               *)
(***************************************************************************)
Workers == 1..2
MaxRuns == 2

ConcurrentModelAnswers == {"m1", "m2"}

Idle == [pc |-> "idle", sheet_id |-> 0, found |-> FALSE, scored |-> Raised,
         remote |-> Failure("not_called"), overlapped |-> FALSE,
         outcome |-> "none", runs |-> 0]

Finished(req, sheet_id, outcome) ==
    [req EXCEPT !.pc = "done", !.sheet_id = sheet_id, !.outcome = outcome,
                !.overlapped = FALSE, !.runs = req.runs + 1]

InitConcurrent ==
    /\ exams = {}
    /\ answer_sheets = {}
    /\ extracted_text = {}
    /\ evaluations = {}
    /\ question_evaluations = <<>>
    /\ reports = {}
    /\ last = Request("init", <<>>, "ok", <<>>)
    /\ inflight = [w \in Workers |-> Idle]

\* evaluate_sheet up to and including the query for the Evaluation.
evaluate_lookup(w, sheet_id) ==
    LET req == inflight[w]
        Reject == inflight' = [inflight EXCEPT ![w] = Finished(req, sheet_id, "rejected")]
    IN
    /\ req.pc \in {"idle", "done"}
    /\ req.runs < MaxRuns
    /\ UNCHANGED <<tables, last>>
    /\ IF SheetById(sheet_id) = {} THEN Reject
       ELSE LET sheet == CHOOSE s \in SheetById(sheet_id) : TRUE IN
       IF ~EvaluateAccepts(sheet) THEN Reject
       ELSE IF TextOfSheet(sheet_id) = {} THEN Reject
       ELSE \E model_answer \in ConcurrentModelAnswers :
            LET extracted == CHOOSE t \in TextOfSheet(sheet_id) : TRUE
                exam == CHOOSE e \in ExamById(sheet.exam_id) : TRUE
                exam_questions == SortedQuestions(exam.questions)
            IN
            \E remote \in RemoteCalls(exam_questions) :
            \E r \in {ScoreSheet(extracted, exam_questions, model_answer, remote)} :
            IF r.raised
            THEN inflight' = [inflight EXCEPT ![w] = Finished(req, sheet_id, "raised")]
            ELSE LET others == {o \in Workers \ {w} :
                                   /\ inflight[o].pc = "looked_up"
                                   /\ inflight[o].sheet_id = sheet_id}
                 IN  inflight' =
                       [o \in Workers |->
                          IF o = w
                          THEN [req EXCEPT
                                  !.pc = "looked_up", !.sheet_id = sheet_id,
                                  !.found = EvaluationsOfText(extracted.text_id) # {},
                                  !.scored = r, !.remote = remote,
                                  !.overlapped = others # {},
                                  !.outcome = "none"]
                          ELSE IF o \in others
                          THEN [inflight[o] EXCEPT !.overlapped = TRUE]
                          ELSE inflight[o]]

\* The rest of evaluate_sheet.  The INSERT of a request that found no
\* Evaluation violates the unique text_id when another request has
\* committed one since; nothing catches the IntegrityError.
evaluate_commit(w) ==
    LET req == inflight[w]
        op == "evaluate_sheet"
        sheet == CHOOSE s \in SheetById(req.sheet_id) : TRUE
        extracted == CHOOSE t \in TextOfSheet(req.sheet_id) : TRUE
        exam == CHOOSE e \in ExamById(sheet.exam_id) : TRUE
        exam_questions == SortedQuestions(exam.questions)
        r == req.scored
    IN
    /\ req.pc = "looked_up"
    /\ IF ~req.found /\ EvaluationsOfText(extracted.text_id) # {}
       THEN /\ inflight' = [inflight EXCEPT ![w] =
                               [req EXCEPT !.pc = "done", !.outcome = "error",
                                           !.runs = req.runs + 1]]
            /\ last' = Request(op, <<req.sheet_id>>, "error", <<>>)
            /\ UNCHANGED tables
       ELSE \E now \in Times :
            LET evals == UpsertEvaluation(extracted.text_id, r.model_answer_ref,
                                          r.final_score, r.feedback, now)
                evaluation == FirstEvaluation({e \in evals : e.text_id = extracted.text_id})
                writes == IF exam_questions # <<>>
                          THEN AlignedWrites(exam_questions, r.per_q, FALSE)
                          ELSE LegacyWrites(r.per_q)
                rows == UpsertQuestionScores(question_evaluations,
                                             question_evaluations,
                                             evaluation.eval_id, writes)
            IN  /\ evaluations' = evals
                /\ question_evaluations' = rows
                /\ answer_sheets' = SetStatus(sheet, EvaluatedStatus)
                /\ inflight' = [inflight EXCEPT ![w] =
                                   [req EXCEPT !.pc = "done", !.outcome = "ok",
                                               !.runs = req.runs + 1]]
                /\ last' = Request(op, <<req.sheet_id>>, "ok",
                                   Wrote(r, req.remote, req.found, now))
                /\ UNCHANGED <<exams, extracted_text, reports>>

NextConcurrent ==
    \/ \E form \in ExamForms : create_exam(form)
          /\ UNCHANGED inflight
    \/ \E st \in StudentIds, ex \in ExamIds, ocr \in OcrResults :
          \E cleaned \in preprocess_text(ocr.text) :
             upload_page_extract(st, ex, ocr, cleaned)
          /\ UNCHANGED inflight
    \/ \E w \in Workers, sh \in SheetIds : evaluate_lookup(w, sh)
    \/ \E w \in Workers : evaluate_commit(w)

SpecConcurrent == InitConcurrent /\ [][NextConcurrent]_vars

(***************************************************************************)
(* The segmenter on its own.  The texts are the concatenations of at most  *)
(* MaxTokens tokens: labels, digits, separators, a letter, blank and       *)
(* newline.  last holds the text, then the text and its segments, then the *)
(* first segments and the segments of their re-joined form.                *)
(***************************************************************************)
MaxTokens == 5

Tokens == {<<"1", ".">>, <<"2", ".">>, <<"1">>, <<")">>, <<".">>, <<"a">>,
           <<" ">>, <<"\n">>}

RECURSIVE TextsUpTo(_)
TextsUpTo(n) ==
    IF n = 0 THEN {<<>>}
    ELSE LET shorter == TextsUpTo(n - 1)
         IN  shorter \cup {t \o k : t \in shorter, k \in Tokens}

Texts == TextsUpTo(MaxTokens)

\* str(n) of a natural number.
RECURSIVE FormatInt(_)
FormatInt(n) ==
    LET d == CASE n % 10 = 0 -> "0" [] n % 10 = 1 -> "1" [] n % 10 = 2 -> "2"
               [] n % 10 = 3 -> "3" [] n % 10 = 4 -> "4" [] n % 10 = 5 -> "5"
               [] n % 10 = 6 -> "6" [] n % 10 = 7 -> "7" [] n % 10 = 8 -> "8"
               [] n % 10 = 9 -> "9"
    IN  IF n < 10 THEN <<d>> ELSE FormatInt(n \div 10) \o <<d>>

\* The concatenation of "{q}. {answer}\n" over the segments.
RECURSIVE Rejoin(_)
Rejoin(segments) ==
    IF segments = <<>> THEN <<>>
    ELSE FormatInt(Head(segments).question_no) \o <<".", " ">>
            \o Head(segments).answer_text \o <<"\n">> \o Rejoin(Tail(segments))

InitSegment ==
    /\ exams = {}
    /\ answer_sheets = {}
    /\ extracted_text = {}
    /\ evaluations = {}
    /\ question_evaluations = <<>>
    /\ reports = {}
    /\ inflight = <<>>
    /\ \E text \in Texts : last = Request("text", <<text>>, "ok", <<>>)

segment ==
    /\ last.op = "text"
    /\ last' = Request("split_numbered_answers", last.key, "ok",
                       split_numbered_answers(last.key[1]))
    /\ UNCHANGED <<tables, inflight>>

resegment ==
    /\ last.op = "split_numbered_answers"
    /\ last' = Request("resegment", <<last.key[1], last.wrote>>, "ok",
                       split_numbered_answers(Rejoin(last.wrote)))
    /\ UNCHANGED <<tables, inflight>>

score_text ==
    /\ last.op = "text"
    /\ \E model_answer \in ModelAnswers :
          last' = Request("evaluate_text_by_questions",
                          <<last.key[1], model_answer>>, "ok",
                          <<evaluate_text_by_questions(last.key[1], model_answer)>>)
    /\ UNCHANGED <<tables, inflight>>

NextSegment == segment \/ resegment \/ score_text

SpecSegment == InitSegment /\ [][NextSegment]_vars

(***************************************************************************)
(* Review and reports of a student who handed in several sheets for one    *)
(* exam.  The initial states are the stores after create_exam and, per     *)
(* sheet, upload_page_extract and a first evaluate_sheet; the requests are *)
(* those that write a Report.                                              *)
(***************************************************************************)
MaxAttempts == 2

Attempts == 1..MaxAttempts

\* The text of sheet i, and its first evaluation when the remote scorer
\* ended as remote says.
AttemptText(i, ocr) ==
    [text_id |-> i, sheet_id |-> i, raw_text |-> ocr.text,
     cleaned_text |-> ocr.text, extraction_confidence |-> ocr.confidence]

AttemptScored(i, exam_questions, ocr, remote) ==
    ScoreSheet(AttemptText(i, ocr), exam_questions, "m1", remote)

AttemptRows(i, exam_questions, per_q) ==
    LET writes == IF exam_questions # <<>>
                  THEN AlignedWrites(exam_questions, per_q, FALSE)
                  ELSE LegacyWrites(per_q)
    IN  UpsertQuestionScores(<<>>, <<>>, i, writes)

\* The rows of the first i evaluations, in the order of their insertion.
RECURSIVE GradedRows(_, _, _)
GradedRows(i, exam_questions, scored) ==
    IF i = 0 THEN <<>>
    ELSE GradedRows(i - 1, exam_questions, scored)
            \o AttemptRows(i, exam_questions, scored[i].per_q)

InitReports ==
    \E form \in ExamForms, ocr \in OcrResults :
    \E exam_questions \in {SortedQuestions(form.questions)} :
    \E remote \in [Attempts -> RemoteCalls(exam_questions)
                                  \ {Failure("import_error")}] :
    \E scored \in {[i \in Attempts |->
                       AttemptScored(i, exam_questions, ocr, remote[i])]} :
        /\ exams = {[exam_id |-> 1, questions |-> form.questions,
                     rubric_details |-> RubricText(form)]}
        /\ answer_sheets =
              {[sheet_id |-> i, student_id |-> 1, exam_id |-> 1,
                status |-> EvaluatedStatus] : i \in Attempts}
        /\ extracted_text = {AttemptText(i, ocr) : i \in Attempts}
        /\ evaluations =
              {[eval_id |-> i, text_id |-> i,
                model_answer_ref |-> scored[i].model_answer_ref,
                score |-> scored[i].final_score,
                feedback |-> scored[i].feedback,
                evaluated_on |-> 1] : i \in Attempts}
        /\ question_evaluations = GradedRows(MaxAttempts, exam_questions, scored)
        /\ reports = {}
        /\ last = Request("init", <<>>, "ok", <<>>)
        /\ inflight = <<>>

NextReports ==
    \/ \E sh \in Attempts : review_page(sh)
          /\ UNCHANGED inflight
    \/ \E st \in StudentIds, ex \in ExamIds : get_report(st, ex)
          /\ UNCHANGED inflight
    \/ \E st \in StudentIds, ex \in ExamIds : teacher_report(st, ex)
          /\ UNCHANGED inflight
    \/ \E st \in StudentIds : student_report(st)
          /\ UNCHANGED inflight

SpecReports == InitReports /\ [][NextReports]_vars

(***************************************************************************)
(* Two exams, each with one evaluated sheet of the same student, and the   *)
(* requests that review, report and delete them.                           *)
(***************************************************************************)
NumExams == 2

BothExams == 1..NumExams

InitExams ==
    \E forms \in [BothExams -> ExamForms], ocr \in OcrResults :
    \E exam_questions \in {[e \in BothExams |->
                               SortedQuestions(forms[e].questions)]} :
    \E remote \in [BothExams -> RemoteOutcomes \cup {Failure("not_called")}] :
    \E scored \in {[e \in BothExams |->
                       AttemptScored(e, exam_questions[e], ocr, remote[e])]} :
        /\ \A e \in BothExams : remote[e] \in RemoteCalls(exam_questions[e])
                                             \ {Failure("import_error")}
        /\ exams = {[exam_id |-> e, questions |-> forms[e].questions,
                     rubric_details |-> RubricText(forms[e])] : e \in BothExams}
        /\ answer_sheets =
              {[sheet_id |-> e, student_id |-> 1, exam_id |-> e,
                status |-> EvaluatedStatus] : e \in BothExams}
        /\ extracted_text = {AttemptText(e, ocr) : e \in BothExams}
        /\ evaluations =
              {[eval_id |-> e, text_id |-> e,
                model_answer_ref |-> scored[e].model_answer_ref,
                score |-> scored[e].final_score,
                feedback |-> scored[e].feedback,
                evaluated_on |-> 1] : e \in BothExams}
        /\ question_evaluations =
              AttemptRows(1, exam_questions[1], scored[1].per_q)
                 \o AttemptRows(2, exam_questions[2], scored[2].per_q)
        /\ reports = {}
        /\ last = Request("init", <<>>, "ok", <<>>)
        /\ inflight = <<>>

NextExams ==
    \/ \E sh \in BothExams : review_page(sh)
          /\ UNCHANGED inflight
    \/ \E st \in StudentIds, ex \in BothExams : teacher_report(st, ex)
          /\ UNCHANGED inflight
    \/ \E ex \in BothExams : delete_exam_with_children(ex)
          /\ UNCHANGED inflight

SpecExams == InitExams /\ [][NextExams]_vars

(***************************************************************************)
(* Properties.  last names the request that led to the state: its          *)
(* operation, its key (the sheet, or the student and exam), how it ended   *)
(* and, for an evaluation that succeeded, what it wrote.                   *)
(***************************************************************************)
EvaluateOps == {"evaluate_sheet", "upload_page_evaluate"}
ReviewOps == {"override_review", "review_page"}
ReportOps == {"get_report", "teacher_report"}

\* The rows of question_evaluations of one Evaluation, in table order.
RowsOf(eval_id) ==
    LET Mine(qe) == qe.eval_id = eval_id
    IN  SelectSeq(question_evaluations, Mine)

\* The Evaluations reached from a sheet through its extracted text.
EvaluationsOfSheet(sheet_id) ==
    UNION {EvaluationsOfText(t.text_id) : t \in TextOfSheet(sheet_id)}

\* C1: after any sequence of evaluations of a sheet (REST or web), exactly
\* one Evaluation exists for the text of the sheet, and its score, feedback,
\* model_answer_ref and timestamp are those the most recent evaluation wrote;
\* no text ever has two Evaluations.
C1_OneEvaluationWithLatestValues ==
    /\ \A t \in extracted_text : Cardinality(EvaluationsOfText(t.text_id)) <= 1
    /\ (last.op \in EvaluateOps /\ last.outcome = "ok") =>
          /\ TextOfSheet(last.key[1]) # {}
          /\ \A t \in TextOfSheet(last.key[1]) :
                /\ Cardinality(EvaluationsOfText(t.text_id)) = 1
                /\ \A e \in EvaluationsOfText(t.text_id) :
                      /\ e.score = last.wrote[1].score
                      /\ e.feedback = last.wrote[1].feedback
                      /\ e.model_answer_ref = last.wrote[1].model_answer_ref
                      /\ e.evaluated_on = last.wrote[1].evaluated_on

\* A re-evaluation: the request found an Evaluation of the text and wrote a
\* remote score over it, at the later of the two times.
C1_Witness ==
    /\ last.op \in EvaluateOps /\ last.outcome = "ok"
    /\ last.wrote[1].existed
    /\ last.wrote[1].feedback.kind = "llm"
    /\ last.wrote[1].evaluated_on = MaxTime
    /\ Cardinality(evaluations) = 1

\* C2: no two rows of question_evaluations share (eval_id, question_no),
\* whatever per-question list an evaluation produced, also when the OCR text
\* repeats a label and the exam defines no questions.
C2_NoDuplicateQuestionRows ==
    \A i, j \in 1..Len(question_evaluations) :
        (/\ question_evaluations[i].eval_id = question_evaluations[j].eval_id
         /\ question_evaluations[i].question_no = question_evaluations[j].question_no)
        => i = j

\* C3: when the exam of a sheet defines questions, the rows of the sheet's
\* Evaluation carry exactly the exam's question numbers, one row each, and
\* no row for an OCR label that is not a question of the exam.
C3_RowsAlignedToExamQuestions ==
    \A sheet \in answer_sheets : \A exam \in ExamById(sheet.exam_id) :
        exam.questions # <<>> =>
            \A e \in EvaluationsOfSheet(sheet.sheet_id) :
                LET rows == RowsOf(e.eval_id)
                    sorted == SortedQuestions(exam.questions)
                IN  /\ Len(rows) = Len(sorted)
                    /\ \A q \in 1..Len(sorted) :
                          Cardinality({i \in 1..Len(rows) :
                              rows[i].question_no = sorted[q].question_no}) = 1

\* An evaluation by the heuristic of a sheet whose text labels 1 (twice), 3
\* and 4, for the exam with the questions 1, 2 and 3: question 2 has its
\* row, as unanswered, and label 4 has none.
C3_Witness ==
    /\ last.op \in EvaluateOps /\ last.outcome = "ok"
    /\ \E i \in 1..Len(last.wrote[1].per_q) : last.wrote[1].per_q[i].question_no = 4
    /\ \A i \in 1..Len(last.wrote[1].per_q) : last.wrote[1].per_q[i].question_no # 2
    /\ \E sheet \in SheetById(last.key[1]) : \E exam \in ExamById(sheet.exam_id) :
          /\ exam.questions # <<>>
          /\ \E e \in EvaluationsOfSheet(sheet.sheet_id) :
                /\ \E i \in 1..Len(RowsOf(e.eval_id)) :
                      /\ RowsOf(e.eval_id)[i].question_no = 2
                      /\ RowsOf(e.eval_id)[i].feedback = "Unanswered"
                /\ \A i \in 1..Len(RowsOf(e.eval_id)) :
                      RowsOf(e.eval_id)[i].question_no # 4

\* C4: however the remote scorer fails (no credentials, the client module
\* or one of its dependencies not importable, a transport error, a reply
\* that cannot be parsed or has another shape), no exception leaves the
\* evaluation: the heuristic scores the sheet, the Evaluation is stored and
\* the sheet is Graded.
C4_RemoteFailureContained ==
    last.op \in EvaluateOps =>
        /\ last.outcome # "raised"
        /\ (/\ last.outcome = "ok"
            /\ last.wrote[1].remote.kind \in {"import_error", "config_error", "exception"})
           => /\ last.wrote[1].feedback.kind = "heuristic"
              /\ EvaluationsOfSheet(last.key[1]) # {}
              /\ \A s \in SheetById(last.key[1]) : s.status = GRADED

\* C5: each evaluation entry point accepts a sheet only when it is Pending
\* or Graded and sets it to Graded on success; on a Reviewed sheet the
\* request is rejected and the status, the Evaluation and the question rows
\* stay as they are.
C5_EvaluationOnlyFromPendingOrGraded ==
    [][last'.op \in EvaluateOps =>
          \A s \in SheetById(last'.key[1]) :
              /\ s.status = REVIEWED =>
                    /\ last'.outcome # "ok"
                    /\ UNCHANGED <<answer_sheets, evaluations, question_evaluations>>
              /\ last'.outcome = "ok" =>
                    /\ s.status \in {PENDING, GRADED}
                    /\ \A after \in answer_sheets' :
                        after.sheet_id = s.sheet_id => after.status = GRADED
    ]_vars

\* C6: each override or review entry point changes scores only when the
\* sheet is Graded and then sets it to Reviewed; on a Pending or a Reviewed
\* sheet the request is rejected and the Evaluation, the question rows and
\* the status stay as they are.
C6_ReviewOnlyFromGraded ==
    [][last'.op \in ReviewOps =>
          \A s \in SheetById(last'.key[1]) :
              /\ s.status # GRADED =>
                    /\ last'.outcome = "rejected"
                    /\ UNCHANGED <<answer_sheets, evaluations, question_evaluations>>
              /\ last'.outcome = "ok" =>
                    /\ s.status = GRADED
                    /\ \A after \in answer_sheets' :
                        after.sheet_id = s.sheet_id => after.status = REVIEWED
    ]_vars

\* C7: a Report of a (student, exam) pair exists only if a sheet of the pair
\* is Reviewed and has an extracted text with an Evaluation.
C7_ReportOnlyWithReviewedSheet ==
    \A r \in reports :
        \E s \in answer_sheets :
            /\ s.student_id = r.student_id
            /\ s.exam_id = r.exam_id
            /\ s.status = REVIEWED
            /\ EvaluationsOfSheet(s.sheet_id) # {}

\* C8: when a pair has no Report and none of its sheets is Reviewed,
\* get_report and teacher_report fail, create no Report and change no
\* sheet's status.
C8_NoReportWithoutReviewedSheet ==
    [][(/\ last'.op \in ReportOps
        /\ ReportsOf(last'.key[1], last'.key[2]) = {}
        /\ ~\E s \in answer_sheets : /\ s.student_id = last'.key[1]
                                     /\ s.exam_id = last'.key[2]
                                     /\ s.status = REVIEWED)
       => /\ last'.outcome = "rejected"
          /\ UNCHANGED <<reports, answer_sheets>>
    ]_vars

\* A report was asked for a pair whose only sheet is Graded, with its
\* Evaluation, and the request failed with the tables as they were.
C8_Witness ==
    /\ last.op \in ReportOps /\ last.outcome = "rejected"
    /\ reports = {}
    /\ \E s \in answer_sheets :
          /\ s.student_id = last.key[1] /\ s.exam_id = last.key[2]
          /\ s.status = GRADED
          /\ EvaluationsOfSheet(s.sheet_id) # {}

\* C9: no request sets a sheet back to Pending once it has left Pending,
\* and none moves a sheet from Pending to Reviewed in one step: a Reviewed
\* sheet was Graded before.
C9_NeverBackToPendingNorPendingToReviewed ==
    [][\A s \in answer_sheets : \A after \in SheetById(s.sheet_id)' :
          /\ s.status # PENDING => after.status # PENDING
          /\ ~(s.status = PENDING /\ after.status = REVIEWED)
    ]_vars

\* A Reviewed sheet was evaluated again from the web page: it left Reviewed,
\* for Graded.
C9_Witness ==
    /\ last.op = "upload_page_evaluate" /\ last.outcome = "ok"
    /\ reports # {}
    /\ \E s \in SheetById(last.key[1]) : s.status = GRADED

\* The last score written for question q among the scored items.
LastScoreOf(per_q, q) ==
    IF LastIndexOfNo(per_q, q) = 0 THEN 0 ELSE per_q[LastIndexOfNo(per_q, q)].score

\* C10: an evaluation is atomic on the committed tables: when it fails
\* (writing the Evaluation, writing a question row, or before the commit)
\* nothing of it is persisted; when it succeeds the Evaluation, every
\* question row and the status Graded are persisted together.
C10_EvaluateIsAtomic ==
    [][last'.op \in EvaluateOps =>
          \/ /\ last'.outcome # "ok"
             /\ UNCHANGED tables
          \/ /\ last'.outcome = "ok"
             /\ \E s \in {x \in answer_sheets' : x.sheet_id = last'.key[1]} :
                   /\ s.status = GRADED
                   /\ \E e \in EvaluationsOfSheet(s.sheet_id)' :
                        LET w == last'.wrote[1]
                            exam == CHOOSE x \in ExamById(s.exam_id) : TRUE
                            numbers ==
                                IF exam.questions # <<>>
                                THEN {exam.questions[i].question_no :
                                         i \in 1..Len(exam.questions)}
                                ELSE {w.per_q[i].question_no : i \in 1..Len(w.per_q)}
                        IN  /\ e.score = w.score
                            /\ e.feedback = w.feedback
                            /\ e.model_answer_ref = w.model_answer_ref
                            /\ e.evaluated_on = w.evaluated_on
                            /\ \A q \in numbers :
                                  \E i \in 1..Len(question_evaluations') :
                                      /\ question_evaluations'[i].eval_id = e.eval_id
                                      /\ question_evaluations'[i].question_no = q
                                      /\ question_evaluations'[i].score =
                                             LastScoreOf(w.per_q, q)
    ]_vars

\* A re-evaluation failed in the store: the Evaluation and the rows of the
\* earlier evaluation are what the tables hold, and the sheet is Graded.
C10_Witness ==
    /\ last.op \in EvaluateOps /\ last.outcome = "error"
    /\ \E s \in SheetById(last.key[1]) :
          /\ s.status = GRADED
          /\ \E e \in EvaluationsOfSheet(s.sheet_id) : RowsOf(e.eval_id) # <<>>

\* Both workers have finished requests that overlapped: each looked the
\* Evaluation up before the other committed.
BothOverlappedDone ==
    /\ DOMAIN inflight = Workers
    /\ \A w \in Workers : inflight[w].pc = "done" /\ inflight[w].overlapped
    /\ \A w, o \in Workers : inflight[w].sheet_id = inflight[o].sheet_id

\* C11: when two evaluate requests of the same sheet overlap (both look
\* the Evaluation up by text_id before either commits), both end without
\* an error, the text has exactly one Evaluation afterwards, and it holds
\* the values of the request that committed last.
C11_ConcurrentEvaluationsBothSucceed ==
    BothOverlappedDone =>
        /\ \A w \in Workers : inflight[w].outcome = "ok"
        /\ \A t \in TextOfSheet(inflight[1].sheet_id) :
              /\ Cardinality(EvaluationsOfText(t.text_id)) = 1
              /\ last.outcome = "ok"
              /\ \A e \in EvaluationsOfText(t.text_id) :
                    /\ e.score = last.wrote[1].score
                    /\ e.feedback = last.wrote[1].feedback
                    /\ e.model_answer_ref = last.wrote[1].model_answer_ref
                    /\ e.evaluated_on = last.wrote[1].evaluated_on

\* Two overlapping requests that both updated an Evaluation that existed.
C11_BothUpdated ==
    /\ BothOverlappedDone
    /\ \A w \in Workers : inflight[w].outcome = "ok"

(***************************************************************************)
(* The segmenter's properties, over the texts of SpecSegment.              *)
(***************************************************************************)
\* The numeric labels at line starts of t: <<a, b>> where t[a..b-1] are
\* digits, t[b] is a separator and only whitespace lies between a line
\* start and a.
LineLabels(t) ==
    {lb \in (1..Len(t)) \X (1..Len(t)) :
        /\ lb[1] < lb[2]
        /\ \A i \in lb[1]..(lb[2] - 1) : t[i] \in Digits
        /\ t[lb[2]] \in Separators
        /\ \E p \in 1..lb[1] :
              /\ p = 1 \/ t[p - 1] = "\n"
              /\ \A i \in p..(lb[1] - 1) : t[i] \in Whitespace}

\* t without its leading and trailing whitespace.
Trimmed(t) ==
    LET inked == {i \in 1..Len(t) : t[i] \notin Whitespace}
    IN  IF inked = {} THEN <<>>
        ELSE SubSeq(t, CHOOSE i \in inked : \A j \in inked : i <= j,
                       CHOOSE i \in inked : \A j \in inked : j <= i)

Segmented == last.op = "split_numbered_answers"

\* C12: a text without a numeric label at a line start yields exactly one
\* item, numbered 1, whose text is the trimmed input; an empty or
\* whitespace-only text yields the empty sequence.
C12_UnlabelledTextIsOneSegment ==
    (Segmented /\ LineLabels(last.key[1]) = {}) =>
        IF Trimmed(last.key[1]) = <<>>
        THEN last.wrote = <<>>
        ELSE last.wrote = <<[question_no |-> 1,
                             answer_text |-> Trimmed(last.key[1])]>>

\* An unlabelled text with a digit in it and whitespace around it.
C12_Witness ==
    /\ Segmented
    /\ LineLabels(last.key[1]) = {}
    /\ \E i \in 1..Len(last.key[1]) : last.key[1][i] \in Digits
    /\ Len(last.wrote) = 1
    /\ last.wrote[1].answer_text # last.key[1]

\* The line-start labels of t are "1." ... "N.", in this order, N >= 1.
\* label[k] is the k-th label by position.
LabelsOneToN(t, label) ==
    /\ Len(label) >= 1
    /\ {label[k] : k \in 1..Len(label)} = LineLabels(t)
    /\ \A k \in 1..Len(label) :
          /\ SubSeq(t, label[k][1], label[k][2] - 1) = FormatInt(k)
          /\ t[label[k][2]] = "."
          /\ k > 1 => label[k - 1][1] < label[k][1]

\* The positions of t after the k-th label and before the next one.
AnswerSpan(t, label, k) ==
    (label[k][2] + 1)..(IF k < Len(label) THEN label[k + 1][1] - 1 ELSE Len(t))

\* N items numbered 1..N, each a piece of the text between its label and
\* the next.
OneItemPerLabel(t, label, segments) ==
    /\ Len(segments) = Len(label)
    /\ \A k \in 1..Len(label) :
          /\ segments[k].question_no = k
          /\ \E x, y \in AnswerSpan(t, label, k) :
                segments[k].answer_text = SubSeq(t, x, y)

LabelSeqs(t) == UNION {[1..n -> LineLabels(t)] : n \in 1..Cardinality(LineLabels(t))}

\* C13 as stated: a text with the labels "1." ... "N." in increasing order
\* yields exactly N items numbered 1..N in that order, none holding its own
\* or the following label.
C13_OneItemPerLabel ==
    Segmented =>
        \A label \in LabelSeqs(last.key[1]) :
            LabelsOneToN(last.key[1], label) =>
                OneItemPerLabel(last.key[1], label, last.wrote)

\* Every label is followed, before the next label, by a character that is
\* neither whitespace nor "." nor ")".
EveryLabelAnswered(t, label) ==
    \A k \in 1..Len(label) :
        \E i \in AnswerSpan(t, label, k) : t[i] \notin Separators

\* C13, amended: a text with the labels "1." ... "N." in increasing order,
\* each followed by a non-empty answer, yields exactly N items numbered
\* 1..N in that order, none holding its own or the following label.
C13_OneItemPerAnsweredLabel ==
    Segmented =>
        \A label \in LabelSeqs(last.key[1]) :
            (LabelsOneToN(last.key[1], label)
                /\ EveryLabelAnswered(last.key[1], label)) =>
                OneItemPerLabel(last.key[1], label, last.wrote)

\* A segmented text with the answered labels "1." and "2.".
C13_Witness ==
    /\ Segmented
    /\ \E label \in LabelSeqs(last.key[1]) :
          /\ Len(label) = 2
          /\ LabelsOneToN(last.key[1], label)
          /\ EveryLabelAnswered(last.key[1], label)

Resegmented == last.op = "resegment"

\* C14 as stated: for every text, the segments of the re-joined segments
\* are the segments of the text.
C14_ResegmentationReproducesSegments ==
    Resegmented => last.wrote = last.key[2]

\* The last line of an answer of several lines is a number.
LastLineIsNumber(answer) ==
    \E n \in 1..Len(answer), a \in 1..Len(answer) :
        /\ answer[n] = "\n"
        /\ n < a
        /\ \A j \in (n + 1)..(a - 1) : answer[j] \in Whitespace
        /\ \A j \in a..Len(answer) : answer[j] \in Digits

\* No answer starts with "." or ")" or ends with a line that is a number.
RejoinKeepsAnswers(segments) ==
    \A i \in 1..Len(segments) :
        /\ segments[i].answer_text[1] \notin {".", ")"}
        /\ ~LastLineIsNumber(segments[i].answer_text)

\* C14, amended: for every text of whose answers none starts with "." or
\* ")" and none ends with a line that holds only a number, the segments of
\* the re-joined segments are the segments of the text.
C14_ResegmentationReproducesKeptAnswers ==
    (Resegmented /\ RejoinKeepsAnswers(last.key[2])) =>
        last.wrote = last.key[2]

\* The segments of two questions, re-joined and segmented again.
C14_Witness ==
    /\ Resegmented
    /\ RejoinKeepsAnswers(last.key[2])
    /\ Len(last.key[2]) = 2
    /\ last.key[2][1].question_no # last.key[2][2].question_no

(***************************************************************************)
(* The reconciler's properties, over the requests of Spec.                 *)
(***************************************************************************)
\* The questions of the exam of a sheet, in the order of their numbers.
QuestionsOfSheet(sheet_id) ==
    IF \E s \in SheetById(sheet_id) : ExamById(s.exam_id) # {}
    THEN LET s == CHOOSE s \in SheetById(sheet_id) : ExamById(s.exam_id) # {}
             exam == CHOOSE e \in ExamById(s.exam_id) : TRUE
         IN  SortedQuestions(exam.questions)
    ELSE <<>>

\* The per-question rows of the Evaluation of a sheet.
RowsOfSheet(sheet_id) ==
    IF EvaluationsOfSheet(sheet_id) = {} THEN <<>>
    ELSE RowsOf((CHOOSE e \in EvaluationsOfSheet(sheet_id) : TRUE).eval_id)

RemoteFailures == {"import_error", "config_error", "exception"}

\* The last request was an evaluation during which the remote scorer failed.
EvaluatedWithRemoteFailure ==
    /\ last.op \in EvaluateOps
    /\ \/ last.outcome = "raised"
       \/ /\ last.outcome = "ok"
          /\ last.wrote[1].remote.kind \in RemoteFailures

\* C15: when the exam defines the questions 1, 2 and 3 and the remote
\* scorer fails, the evaluation yields exactly three per-question entries,
\* for the questions 1, 2 and 3 in this order, each with a numeric score,
\* whatever numbering the OCR text carried.
C15_ThreeEntriesWhenRemoteFails ==
    (/\ EvaluatedWithRemoteFailure
     /\ [i \in 1..Len(QuestionsOfSheet(last.key[1])) |->
            QuestionsOfSheet(last.key[1])[i].question_no] = <<1, 2, 3>>)
    => /\ last.outcome = "ok"
       /\ [i \in 1..Len(RowsOfSheet(last.key[1])) |->
              RowsOfSheet(last.key[1])[i].question_no] = <<1, 2, 3>>
       /\ \A i \in 1..Len(RowsOfSheet(last.key[1])) :
              RowsOfSheet(last.key[1])[i].score \in Nat

\* The numbers of the segments of the raw text of a sheet.
AnsweredNumbers(sheet_id) ==
    UNION {{split_numbered_answers(t.raw_text)[i].question_no :
               i \in 1..Len(split_numbered_answers(t.raw_text))} :
           t \in TextOfSheet(sheet_id)}

\* C16: when the exam defines questions and the segmented text answers
\* questions 1 and 3 and not question 2, the row of question 2 has the
\* score 0 and the feedback "Unanswered", after a remote scoring as well as
\* after the heuristic.
C16_UnansweredQuestionMarked ==
    (/\ last.op \in EvaluateOps /\ last.outcome = "ok"
     /\ \E i \in 1..Len(QuestionsOfSheet(last.key[1])) :
           QuestionsOfSheet(last.key[1])[i].question_no = 2
     /\ {1, 3} \subseteq AnsweredNumbers(last.key[1])
     /\ 2 \notin AnsweredNumbers(last.key[1]))
    => \E i \in 1..Len(RowsOfSheet(last.key[1])) :
          /\ RowsOfSheet(last.key[1])[i].question_no = 2
          /\ RowsOfSheet(last.key[1])[i].score = 0
          /\ RowsOfSheet(last.key[1])[i].feedback = "Unanswered"

\* The integer a text holds: the value of its first run of digits, <<>> if
\* it has no digit.
IntegerIn(s) ==
    LET digits == {i \in 1..Len(s) : s[i] \in Digits}
    IN  IF digits = {} THEN <<>>
        ELSE LET a == CHOOSE i \in digits : \A j \in digits : i <= j
                 b == CHOOSE i \in a..Len(s) :
                         /\ \A j \in a..i : s[j] \in Digits
                         /\ i = Len(s) \/ s[i + 1] \notin Digits
             IN  <<ParseInt(SubSeq(s, a, b))>>

\* The question number an item of a response names.
NumberOfItem(item) ==
    IF item.question_no.kind = "int" THEN <<item.question_no.n>>
    ELSE IntegerIn(item.question_no.s)

\* The score an item of a response carries: 0 if missing or not a number.
ScoreOfItem(item) == IF item.score.kind = "num" THEN item.score.n ELSE 0

EvaluatedByRemote ==
    /\ last.op \in EvaluateOps /\ last.outcome = "ok"
    /\ last.wrote[1].remote.kind = "response"

\* C17: an item of the remote response whose question_no is a string with
\* a number in it ("2", "Q2") is recorded, with its score, under that
\* number; an item is discarded only when its question_no holds no integer.
C17_StringQuestionNumberParsed ==
    EvaluatedByRemote =>
        \A i \in 1..Len(last.wrote[1].remote.questions) :
            LET item == last.wrote[1].remote.questions[i] IN
            NumberOfItem(item) # <<>> =>
                \E j \in 1..Len(last.wrote[1].per_q) :
                    /\ last.wrote[1].per_q[j].question_no = NumberOfItem(item)[1]
                    /\ last.wrote[1].per_q[j].score = ScoreOfItem(item)

\* The items of a response that the evaluation recorded: those whose
\* number has an entry in the per-question result.
CountedItems(response, per_q) ==
    {i \in 1..Len(response.questions) :
        /\ NumberOfItem(response.questions[i]) # <<>>
        /\ \E j \in 1..Len(per_q) :
              per_q[j].question_no = NumberOfItem(response.questions[i])[1]}

RECURSIVE SumOver(_, _)
SumOver(S, response) ==
    IF S = {} THEN 0
    ELSE LET i == CHOOSE i \in S : TRUE
         IN  ScoreOfItem(response.questions[i]) + SumOver(S \ {i}, response)

\* C18: after a remote scoring the final score is the total the remote
\* supplied, if it supplied one; else it is the sum of the scores of the
\* recorded items, where a missing or non-numeric score counts 0 and a
\* discarded item is not counted.
C18_RemoteFinalScore ==
    EvaluatedByRemote =>
        LET response == last.wrote[1].remote
            per_q == last.wrote[1].per_q
        IN  /\ last.wrote[1].score =
                  IF response.total_score # <<>> THEN response.total_score[1]
                  ELSE SumOver(CountedItems(response, per_q), response)
            /\ \A e \in EvaluationsOfSheet(last.key[1]) :
                  e.score = last.wrote[1].score

\* A remote scoring without a total, with an item whose score is not a
\* number and an item that was discarded.
C18_Witness ==
    /\ EvaluatedByRemote
    /\ last.wrote[1].remote.total_score = <<>>
    /\ last.wrote[1].score > 0
    /\ \E i \in 1..Len(last.wrote[1].remote.questions) :
          last.wrote[1].remote.questions[i].score.kind # "num"
    /\ \E i \in 1..Len(last.wrote[1].remote.questions) :
          i \notin CountedItems(last.wrote[1].remote, last.wrote[1].per_q)

\* A remote scoring whose total differs from the sum of its items.
C18_WitnessTotal ==
    /\ EvaluatedByRemote
    /\ last.wrote[1].remote.total_score # <<>>
    /\ last.wrote[1].score #
          SumOver(CountedItems(last.wrote[1].remote, last.wrote[1].per_q),
                  last.wrote[1].remote)

\* C19: with an empty or whitespace-only raw text, whatever the exam, the
\* evaluation ends without an error, and its per-question result is one
\* fallback entry with score 0 or, when the exam defines questions, one
\* entry with score 0 and feedback "Unanswered" per question of the exam:
\* no question has a score other than 0.
C19_EmptyTextScoresNothing ==
    (/\ last.op \in EvaluateOps
     /\ last.outcome \in {"ok", "raised"}
     /\ \E t \in TextOfSheet(last.key[1]) : Trimmed(t.raw_text) = <<>>)
    => /\ last.outcome = "ok"
       /\ \A i \in 1..Len(RowsOfSheet(last.key[1])) :
             RowsOfSheet(last.key[1])[i].score = 0
       /\ IF QuestionsOfSheet(last.key[1]) = <<>>
          THEN Len(RowsOfSheet(last.key[1])) = 1
          ELSE /\ Len(RowsOfSheet(last.key[1])) = Len(QuestionsOfSheet(last.key[1]))
               /\ \A i \in 1..Len(RowsOfSheet(last.key[1])) :
                     RowsOfSheet(last.key[1])[i].feedback = "Unanswered"

(***************************************************************************)
(* Reports, over the requests of SpecReports.                              *)
(***************************************************************************)
\* The scores of the Evaluations of the Reviewed sheets of a pair.
ReviewedScores(student_id, exam_id) ==
    {e.score : e \in {x \in evaluations :
        \E t \in extracted_text, s \in answer_sheets :
            /\ t.text_id = x.text_id
            /\ s.sheet_id = t.sheet_id
            /\ s.student_id = student_id /\ s.exam_id = exam_id
            /\ s.status = REVIEWED}}

\* C20: whichever entry point creates or updates a Report (get_report,
\* teacher_report, student_report, the review page), the total_score it
\* writes is the maximum Evaluation score over the Reviewed sheets of the
\* Report's student and exam.
C20_ReportTotalIsMaximum ==
    [][\A r \in reports' :
          r \notin reports =>
              /\ ReviewedScores(r.student_id, r.exam_id)' # {}
              /\ r.total_score = Max(ReviewedScores(r.student_id, r.exam_id))']_vars

(***************************************************************************)
(* Further properties of the evaluation, the store and the lifecycle.      *)
(***************************************************************************)
\* C21: every evaluation segments and scores the raw OCR text, never the
\* cleaned text: each answer of the per-question result is an answer of a
\* segment of the raw text with the same number (or the raw text itself as
\* question 1 when it has no segment), also after the heuristic pass used
\* as fallback or for an exam without questions.
C21_EvaluationReadsRawText ==
    (last.op \in EvaluateOps /\ last.outcome = "ok") =>
        \A t \in TextOfSheet(last.key[1]) :
            LET segments == split_numbered_answers(t.raw_text)
                per_q == last.wrote[1].per_q
            IN  \A j \in 1..Len(per_q) :
                    \/ per_q[j].answer_text = <<>>
                    \/ \E i \in 1..Len(segments) :
                          /\ segments[i].question_no = per_q[j].question_no
                          /\ segments[i].answer_text = per_q[j].answer_text
                    \/ /\ segments = <<>>
                       /\ per_q[j].question_no = 1
                       /\ per_q[j].answer_text = t.raw_text

HeuristicScored == last.op = "evaluate_text_by_questions"

\* C22: for every text with at least one segment the question-grouped
\* heuristic pass returns one entry per segment in segmentation order, each
\* with the sub-score 0.78, and the final score 0.83, whatever the number
\* of segments and whatever the answer text.
C22_HeuristicScoresEverySegmentAlike ==
    HeuristicScored =>
        LET segments == split_numbered_answers(last.key[1])
            result == last.wrote[1]
        IN  segments # <<>> =>
                /\ Len(result.per_q) = Len(segments)
                /\ \A i \in 1..Len(segments) :
                      /\ result.per_q[i].question_no = segments[i].question_no
                      /\ result.per_q[i].answer_text = segments[i].answer_text
                      /\ result.per_q[i].score = 780
                /\ result.final_score = 830

C22_Witness ==
    /\ HeuristicScored
    /\ Len(split_numbered_answers(last.key[1])) = 2
    /\ Len(last.wrote[1].per_q) = 2
    /\ last.wrote[1].per_q[1].answer_text # last.wrote[1].per_q[2].answer_text
    /\ last.wrote[1].final_score = 830

OcrRan == last.op = "ocr_run" /\ last.outcome = "ok"

\* C23: running OCR on a sheet in any status leaves the sheet's status and
\* the existing Evaluation and QuestionEvaluation rows unchanged, and
\* leaves exactly one ExtractedText record for the sheet, holding the newly
\* extracted raw text, its cleaned form and the new confidence.
C23_OcrRunOnlyReplacesText ==
    [][OcrRan' =>
          /\ answer_sheets' = answer_sheets
          /\ evaluations' = evaluations
          /\ question_evaluations' = question_evaluations
          /\ Cardinality(TextOfSheet(last.key[1])') = 1
          /\ \A t \in TextOfSheet(last.key[1])' :
                /\ t.raw_text = last'.wrote[1].text
                /\ t.cleaned_text = Lower(Strip(last'.wrote[1].text))
                /\ t.extraction_confidence = last'.wrote[1].confidence]_vars

\* OCR was run again on an evaluated sheet whose stored answers come from
\* an earlier, different text.
C23_Witness ==
    /\ OcrRan
    /\ \E s \in SheetById(last.key[1]) : s.status # PENDING
    /\ \E t \in TextOfSheet(last.key[1]) :
          /\ t.raw_text = <<>>
          /\ \E e \in EvaluationsOfText(t.text_id) : Len(RowsOf(e.eval_id)) > 1

ExamDeleted == last.op = "delete_exam" /\ last.outcome = "ok"

SheetIdsOfExam(exam_id) ==
    {s.sheet_id : s \in {x \in answer_sheets : x.exam_id = exam_id}}

TextIdsOfExam(exam_id) ==
    {t.text_id : t \in {x \in extracted_text :
                           x.sheet_id \in SheetIdsOfExam(exam_id)}}

EvalIdsOfExam(exam_id) ==
    {e.eval_id : e \in {x \in evaluations : x.text_id \in TextIdsOfExam(exam_id)}}

RowsOutsideExam(exam_id) ==
    LET Other(qe) == qe.eval_id \notin EvalIdsOfExam(exam_id)
    IN  SelectSeq(question_evaluations, Other)

\* C24: after an exam is deleted, no exam (with its questions), sheet,
\* extracted text, evaluation, question row or report that referred to it
\* remains, and the records of every other exam are unchanged.
C24_DeleteExamRemovesOnlyItsRecords ==
    [][ExamDeleted' =>
          \E ex \in {last'.key[1]} :
             /\ \A e \in exams' : e.exam_id # ex
             /\ \A s \in answer_sheets' : s.exam_id # ex
             /\ \A t \in extracted_text' : t.sheet_id \notin SheetIdsOfExam(ex)
             /\ \A e \in evaluations' : e.text_id \notin TextIdsOfExam(ex)
             /\ \A i \in 1..Len(question_evaluations') :
                   question_evaluations'[i].eval_id \notin EvalIdsOfExam(ex)
             /\ \A r \in reports' : r.exam_id # ex
             /\ exams' = {e \in exams : e.exam_id # ex}
             /\ answer_sheets' = {s \in answer_sheets : s.exam_id # ex}
             /\ extracted_text' =
                   {t \in extracted_text : t.sheet_id \notin SheetIdsOfExam(ex)}
             /\ evaluations' =
                   {e \in evaluations : e.text_id \notin TextIdsOfExam(ex)}
             /\ question_evaluations' = RowsOutsideExam(ex)
             /\ reports' = {r \in reports : r.exam_id # ex}]_vars

\* One of two exams was deleted after both had been reviewed and reported:
\* the other exam still has its sheet, text, evaluation, rows and report.
C24_Witness ==
    /\ ExamDeleted
    /\ \E e \in exams :
          /\ e.exam_id # last.key[1]
          /\ \E s \in answer_sheets : s.exam_id = e.exam_id /\ s.status = REVIEWED
          /\ EvalIdsOfExam(e.exam_id) # {}
          /\ RowsOutsideExam(last.key[1]) # <<>>
          /\ \E r \in reports : r.exam_id = e.exam_id

\* C25: every per-question score stored from a response of the remote
\* scorer lies within [0, max_marks] of the exam question it is stored for.
C25_RemoteScoresWithinMaxMarks ==
    EvaluatedByRemote =>
        \A i \in 1..Len(RowsOfSheet(last.key[1])) :
        \A j \in 1..Len(QuestionsOfSheet(last.key[1])) :
            LET row == RowsOfSheet(last.key[1])[i]
                question == QuestionsOfSheet(last.key[1])[j]
            IN  row.question_no = question.question_no =>
                    /\ 0 <= row.score
                    /\ row.score <= question.marks

\* The new per-question list of an evaluation of a sheet, as pairs of
\* question number and score: one pair per exam question when the exam
\* defines questions (the last scored entry of the number, else 0), and
\* one pair per scored entry otherwise.
NewList(sheet_id, per_q) ==
    LET questions == QuestionsOfSheet(sheet_id)
        Hits(q) == {i \in 1..Len(per_q) : per_q[i].question_no = q}
    IN  IF questions # <<>>
        THEN [j \in 1..Len(questions) |->
                 <<questions[j].question_no,
                   IF Hits(questions[j].question_no) = {} THEN 0
                   ELSE per_q[Max(Hits(questions[j].question_no))].score>>]
        ELSE [i \in 1..Len(per_q) |-> <<per_q[i].question_no, per_q[i].score>>]

NumbersAndScores(rows) ==
    [i \in 1..Len(rows) |-> <<rows[i].question_no, rows[i].score>>]

\* C26: under the default upsert (evaluate_sheet) a row whose question
\* number is absent from the new per-question list is neither deleted nor
\* modified; under the replace-all variant (the web evaluate action on an
\* existing Evaluation) the rows after the call are exactly the rows of the
\* new list.
C26_UpsertKeepsAndReplaceAllReplaces ==
    [][/\ (last'.op = "evaluate_sheet" /\ last'.outcome = "ok") =>
            \E new \in {NewList(last'.key[1], last'.wrote[1].per_q)} :
            \A i \in 1..Len(question_evaluations) :
                (/\ \E e \in EvaluationsOfSheet(last'.key[1]) :
                        question_evaluations[i].eval_id = e.eval_id
                 /\ \A j \in 1..Len(new) :
                        new[j][1] # question_evaluations[i].question_no)
                => /\ i <= Len(question_evaluations')
                   /\ question_evaluations'[i] = question_evaluations[i]
       /\ (/\ last'.op = "upload_page_evaluate" /\ last'.outcome = "ok"
           /\ EvaluationsOfSheet(last'.key[1]) # {}) =>
            NumbersAndScores(RowsOfSheet(last.key[1])') =
                NewList(last'.key[1], last'.wrote[1].per_q)]_vars

\* A sheet of an exam without questions was evaluated again after its text
\* had changed: a row of a number the new list lacks is still stored.
C26_Witness ==
    /\ last.op = "evaluate_sheet" /\ last.outcome = "ok"
    /\ QuestionsOfSheet(last.key[1]) = <<>>
    /\ \E i \in 1..Len(RowsOfSheet(last.key[1])) :
          \A j \in 1..Len(last.wrote[1].per_q) :
              last.wrote[1].per_q[j].question_no
                 # RowsOfSheet(last.key[1])[i].question_no

\* The last request was rejected for its input: evaluate_sheet for an
\* unknown sheet, a sheet without extracted text or an empty model_answer;
\* override_review for a missing or non-numeric score; the review page for
\* a non-numeric question score.
RejectedForInput ==
    /\ last.outcome = "rejected"
    /\ \/ /\ last.op = "evaluate_sheet"
          /\ \/ SheetById(last.key[1]) = {}
             \/ TextOfSheet(last.key[1]) = {}
             \/ Len(last.wrote) = 1
       \/ /\ last.op = "override_review"
          /\ Len(last.wrote) = 1
          /\ last.wrote[1].kind \in {"missing", "str"}
       \/ /\ last.op = "review_page"
          /\ Len(last.wrote) = 1
          /\ \E i \in 1..Len(last.wrote[1]) : last.wrote[1][i].score.kind # "num"

C28_EvaluatedStatusIffEvaluation ==
    \A s \in answer_sheets :
        s.status \in {GRADED, REVIEWED} <=> EvaluationsOfSheet(s.sheet_id) # {}

\* A sheet was evaluated and later reviewed: it is Reviewed and its text
\* has an Evaluation.
C28_Witness ==
    /\ last.op \in ReviewOps /\ last.outcome = "ok"
    /\ \E s \in answer_sheets :
          /\ s.status = REVIEWED
          /\ EvaluationsOfSheet(s.sheet_id) # {}

\* C29: after any sequence, one request at a time, of get_report,
\* teacher_report, student_report and review-page submissions, at most one
\* Report exists for each pair of student and exam.
C29_OneReportPerPair ==
    \A r1, r2 \in reports :
        (r1.student_id = r2.student_id /\ r1.exam_id = r2.exam_id) => r1 = r2

\* A report request answered from the Report that a review had written.
C29_Witness ==
    /\ last.op \in {"get_report", "teacher_report", "student_report"}
    /\ last.outcome = "ok"
    /\ \E r \in reports : Len(r.remarks) = 1 /\ r.remarks[1].sheet_id = 0
    /\ Cardinality(reports) = 1

\* C30: after every successful question-wise review (review page POST) the
\* Evaluation's score equals the sum, rounded to 2 decimals, of the scores
\* of all QuestionEvaluation rows of that Evaluation.
C30_ReviewScoreIsSumOfAllRows ==
    (last.op = "review_page" /\ last.outcome = "ok") =>
        \A e \in EvaluationsOfSheet(last.key[1]) :
            e.score = Round2Div(SumSeq([i \in 1..Len(RowsOf(e.eval_id)) |->
                                           RowsOf(e.eval_id)[i].score]), 1)

====
